---------------------------- MODULE Spec2Model ----------------------------
(***************************************************************************)
(* Model of the page layer of the 1CD driver: cache::fifo, cache::lru,     *)
(* cache::twoq (src/db_1c/cache.h), db_1cd_8x::file and db_1cd_8x::pages   *)
(* (src/db_1cd/db_1cd_8x.cpp, src/db_1c/db_1c_8x.h).                       *)
(*                                                                         *)
(* std::optional<T> is a sequence of length 0 (empty) or 1 (engaged).      *)
(* A std::pair is a 2-tuple <<first, second>>.  A vector iterator is the   *)
(* 1-based position it points at; Len(items) + 1 is end().                 *)
(* A pool slot is the number k of the page-sized piece                     *)
(* &cache_data[k * page_size] it points at.                                *)
(***************************************************************************)
EXTENDS Integers, Sequences, FiniteSets, TLC

\* ------------------------------------------------------------- bounds
MaxCacheSize == 4       \* page-cache capacities 1..MaxCacheSize are tried
MaxLength    == 6       \* database lengths (pages) up to MaxLength are tried
MaxLoads     == 10      \* pages loaded into the cache in one run
MaxCalls     == 3       \* calls made on the layers above pages in one run

\* ------------------------------------------------- program constants
NO_ERROR         == 0           \* WinAPI: no error
ERROR_ANY        == 5           \* some non-zero WinAPI error code
VERSION_8_2_14   == 918024      \* 0x000E0208
VERSION_8_3_8    == 525064      \* 0x00080308
HDR_SIZE         == 24          \* sizeof(db_hdr), packed
SIZE_MOD         == 1073741824  \* std::size_t arithmetic is modulo this (scaled to TLC's integers)

SIG_OK  == "1CDBMSV8"
SIG_BAD == "1CDBMSV7"

None == <<>>
Some(x) == <<x>>
has_value(o) == Len(o) = 1
value(o) == o[1]

\* ------------------------------------------------------ cache::fifo
\* fifo::fifo(size_): max_size, empty items, next_item = items.end().
fifo_ctor(size_) == [max_size |-> size_, items |-> <<>>, next_item |-> 1]

\* fifo::item_find: position of the first item with that key, or end().
fifo_item_find(f, index_) ==
    IF \E p \in 1..Len(f.items) : f.items[p][1] = index_
    THEN CHOOSE p \in 1..Len(f.items) :
            /\ f.items[p][1] = index_
            /\ \A r \in 1..(p - 1) : f.items[r][1] # index_
    ELSE Len(f.items) + 1

\* A find that never finds.
fifo_find_miss(f, index_) == None

\* fifo::find: the value stored under the key; the queue is not changed.
fifo_find(f, index_) ==
    LET i_res == fifo_item_find(f, index_)
    IN  IF i_res # Len(f.items) + 1 THEN Some(f.items[i_res][2]) ELSE None

\* An item_push whose cursor stays on the slot it has just overwritten.
fifo_item_push_stuck(f, value_) ==
    IF Len(f.items) < f.max_size
    THEN [q      |-> [f EXCEPT !.items = Append(f.items, value_),
                               !.next_item = Len(f.items) + 2],
          result |-> None,
          fault  |-> FALSE]
    ELSE LET n == IF f.next_item = Len(f.items) + 1 THEN 1 ELSE f.next_item
         IN  IF n > Len(f.items)
             THEN [q |-> f, result |-> None, fault |-> TRUE]
             ELSE [q      |-> [f EXCEPT !.items = [f.items EXCEPT ![n] = value_],
                                       !.next_item = n],
                   result |-> Some(f.items[n]),
                   fault  |-> FALSE]

\* fifo::item_push.  fault: the else branch dereferences next_item, which is
\* items.begin() == items.end() of a vector that holds nothing (max_size = 0).
fifo_item_push(f, value_) ==
    IF Len(f.items) < f.max_size
    THEN [q      |-> [f EXCEPT !.items = Append(f.items, value_),
                               !.next_item = Len(f.items) + 2],
          result |-> None,
          fault  |-> FALSE]
    ELSE LET n == IF f.next_item = Len(f.items) + 1 THEN 1 ELSE f.next_item
         IN  IF n > Len(f.items)
             THEN [q |-> f, result |-> None, fault |-> TRUE]
             ELSE [q      |-> [f EXCEPT !.items = [f.items EXCEPT ![n] = value_],
                                       !.next_item = n + 1],
                   result |-> Some(f.items[n]),
                   fault  |-> FALSE]

fifo_push(f, value_) == fifo_item_push(f, value_)

\* ------------------------------------------------------- cache::lru
lru_ctor(size_) == [max_size |-> size_, items |-> <<>>]

lru_item_find(l, index_) ==
    IF \E p \in 1..Len(l.items) : l.items[p][1] = index_
    THEN CHOOSE p \in 1..Len(l.items) :
            /\ l.items[p][1] = index_
            /\ \A r \in 1..(p - 1) : l.items[r][1] # index_
    ELSE Len(l.items) + 1

\* A move to the top that leaves the item where it is.
lru_item_move_top_stay(l, i_item_) == l

\* lru::item_move_top: erase the item and append a copy of it.
lru_item_move_top(l, i_item_) ==
    [l EXCEPT !.items =
        Append(SubSeq(l.items, 1, i_item_ - 1) \o
               SubSeq(l.items, i_item_ + 1, Len(l.items)),
               l.items[i_item_])]

\* lru::find: a hit moves the item to the top (the back of the vector).
lru_find(l, index_) ==
    LET i_res == lru_item_find(l, index_)
    IN  IF i_res # Len(l.items) + 1
        THEN [q |-> lru_item_move_top(l, i_res), result |-> Some(l.items[i_res][2])]
        ELSE [q |-> l, result |-> None]

\* lru::item_push.  fault: *items.begin() of an empty vector (max_size = 0).
lru_item_push(l, value_) ==
    IF Len(l.items) < l.max_size
    THEN [q |-> [l EXCEPT !.items = Append(l.items, value_)],
          result |-> None, fault |-> FALSE]
    ELSE IF Len(l.items) = 0
         THEN [q |-> l, result |-> None, fault |-> TRUE]
         ELSE [q |-> [l EXCEPT !.items = Append(Tail(l.items), value_)],
               result |-> Some(Head(l.items)), fault |-> FALSE]

lru_push(l, value_) == lru_item_push(l, value_)

\* ------------------------------------------------------ cache::twoq
\* A twoq whose main is given the whole capacity.
twoq_ctor_main_whole(size_) ==
    [in   |-> fifo_ctor(size_ \div 4),
     out  |-> fifo_ctor(size_ \div 2),
     main |-> lru_ctor(size_)]

\* twoq::twoq(size_): in(size_ / 4), out(size_ / 2), main(size_ - size_ / 4).
twoq_ctor(size_) ==
    [in   |-> fifo_ctor(size_ \div 4),
     out  |-> fifo_ctor(size_ \div 2),
     main |-> lru_ctor(size_ - size_ \div 4)]

\* The asserts 'size_ >= 1' of the three sub-cache constructors.
twoq_ctor_asserts(size_) ==
    /\ size_ \div 4 >= 1
    /\ size_ \div 2 >= 1
    /\ size_ - size_ \div 4 >= 1

\* A find that looks in main only.
twoq_find_main_only(c, index_) ==
    LET m == lru_find(c.main, index_)
    IN  [q |-> [c EXCEPT !.main = m.q], result |-> m.result,
         from |-> IF has_value(m.result) THEN "main" ELSE "none"]

\* A find that looks in 'in' before main.
twoq_find_in_first(c, index_) ==
    LET r == fifo_find(c.in, index_)
    IN  IF has_value(r)
        THEN [q |-> c, result |-> r, from |-> "in"]
        ELSE LET m == lru_find(c.main, index_)
             IN  [q |-> [c EXCEPT !.main = m.q], result |-> m.result,
                  from |-> IF has_value(m.result) THEN "main" ELSE "none"]

\* twoq::find: main first, then in.  from: the sub-cache that answered.
twoq_find(c, index_) ==
    LET m == lru_find(c.main, index_)
    IN  IF has_value(m.result)
        THEN [q |-> [c EXCEPT !.main = m.q], result |-> m.result, from |-> "main"]
        ELSE LET r == fifo_find(c.in, index_)
             IN  [q |-> c, result |-> r,
                  from |-> IF has_value(r) THEN "in" ELSE "none"]

\* A push that drops what 'in' evicts without remembering its key in out.
twoq_push_no_ghost(c, value_) ==
    LET r == fifo_push(c.in, value_)
    IN  [q |-> [c EXCEPT !.in = r.q], result |-> r.result, fault |-> r.fault]

\* A push that hands back what out displaced when 'in' evicted.
twoq_push_ghost_back(c, value_) ==
    IF ~has_value(fifo_find(c.out, value_[1]))
    THEN LET r == fifo_push(c.in, value_)
         IN  IF r.fault
             THEN [q |-> c, result |-> None, fault |-> TRUE]
             ELSE IF has_value(r.result)
                  THEN LET o == fifo_push(c.out, <<value(r.result)[1], 0>>)
                       IN  [q |-> [c EXCEPT !.in = r.q, !.out = o.q],
                            result |-> o.result, fault |-> o.fault]
                  ELSE [q |-> [c EXCEPT !.in = r.q], result |-> None, fault |-> FALSE]
    ELSE LET m == lru_push(c.main, value_)
         IN  [q |-> [c EXCEPT !.main = m.q], result |-> m.result, fault |-> m.fault]

\* twoq::push.
twoq_push(c, value_) ==
    IF ~has_value(fifo_find(c.out, value_[1]))
    THEN LET r == fifo_push(c.in, value_)
         IN  IF r.fault
             THEN [q |-> c, result |-> None, fault |-> TRUE]
             ELSE IF has_value(r.result)
                  THEN LET o == fifo_push(c.out, <<value(r.result)[1], 0>>)
                       IN  [q |-> [c EXCEPT !.in = r.q, !.out = o.q],
                            result |-> r.result, fault |-> o.fault]
                  ELSE [q |-> [c EXCEPT !.in = r.q], result |-> None, fault |-> FALSE]
    ELSE LET m == lru_push(c.main, value_)
         IN  [q |-> [c EXCEPT !.main = m.q], result |-> m.result, fault |-> m.fault]

\* twoq::clear.
twoq_clear(c) ==
    [in   |-> [c.in EXCEPT !.items = <<>>, !.next_item = 1],
     out  |-> [c.out EXCEPT !.items = <<>>, !.next_item = 1],
     main |-> [c.main EXCEPT !.items = <<>>]]


\* ---------------------------------------------------- program state
VARIABLES
    phase,          \* "start", "closed" (constructed, !is_valid()), "open", "aborted"
    cache_size,     \* pages::cache_size
    db_hdr,         \* pages::db_hdr
    file_iface,     \* pages::file_iface: [valid, file_size]
    cache_data,     \* pages::cache_data, per slot: what the page-sized piece holds
    cache_pool,     \* pages::cache_pool, back of the vector last
    cache_queue,    \* pages::cache_queue
    op,             \* the last call made on the object, its arguments and its outcome
    seen,           \* the caller: the highest page index it has had loaded
    loads,          \* the caller: the pages its calls have loaded into the cache
    file_data,      \* the file: what its pages 1, 2, ... hold (page 0 is the header)
    obj,            \* object::hdr_page of the object in use: [valid, hdr]
    calls,          \* the caller: the calls it has made on the layers above pages
    rec,            \* the records cursor in use: [valid, fields, stride,
                    \*   records_count, last_index, record]
    root,           \* the root object in use: [valid, hdr_data]
    prog            \* the sample program: [pc, ...], its position and its output
                    \*   (for the lru used on its own: the caller's log of uses)

vars == <<phase, cache_size, db_hdr, file_iface, cache_data, cache_pool,
          cache_queue, op, seen, loads, file_data, obj, calls, rec, root,
          prog>>

\* The state of the layers above pages.
layers == <<file_data, obj, calls, rec, root, prog>>

Min(a, b) == IF a < b THEN a ELSE b

\* What a slot of cache_data holds: zeros (vector::resize), the page-sized run of
\* file bytes that starts at file offset 'base', or the leftovers of a failed read.
Zeros       == <<"zeros", 0>>
Garbage     == <<"garbage", 0>>
FileAt(base) == <<"file", base>>

\* ---------------------------------------------------- db_1cd_8x::file
\* file::open.  io.create_ok: CreateFileW gave a handle; io.size_ok: GetFileSizeEx
\* succeeded.  Both failures leave a non-zero GetLastError().
file_open(io) ==
    IF ~io.create_ok THEN [fe |-> ERROR_ANY, f |-> [valid |-> FALSE, file_size |-> 0]]
    ELSE IF ~io.size_ok THEN [fe |-> ERROR_ANY, f |-> [valid |-> FALSE, file_size |-> 0]]
    ELSE [fe |-> NO_ERROR, f |-> [valid |-> TRUE, file_size |-> io.file_size]]

\* file::read of count_ bytes at pos_.  io.read_ok: SetFilePointerEx and ReadFile
\* both returned TRUE; a synchronous ReadFile that returns TRUE has transferred
\* the bytes the file holds from pos_ on, at most count_.  When it returned TRUE
\* with readed_size # count_ the code reports GetLastError(), which no call has
\* set: io.last_error is the thread's stale last-error value, NO_ERROR or not.
\* readed: the bytes that reached the buffer (io.touched: a failed transfer
\* has written into the buffer).
file_read(f, count_, pos_, io) ==
    LET avail == IF pos_ >= f.file_size THEN 0 ELSE f.file_size - pos_
        full  == Min(count_, avail)
    IN  IF ~io.read_ok
        THEN [fe |-> ERROR_ANY, readed |-> IF io.touched THEN full ELSE 0,
              whole |-> FALSE]
        ELSE IF full # count_
             THEN [fe |-> io.last_error, readed |-> full, whole |-> FALSE]
             ELSE [fe |-> NO_ERROR, readed |-> full, whole |-> TRUE]

\* A caller that never looks at the error a read returns.
file_error_ok_ignored(fe) == TRUE

\* file::error::operator bool.
file_error_ok(fe) == fe = NO_ERROR

\* No object has been constructed.
NoObject == [valid |-> FALSE]

\* No records cursor has been constructed.
NoRecords == [valid |-> FALSE]

\* No root object has been constructed.
NoRoot == [valid |-> FALSE]

\* The sample program is not running.
NoProgram == [pc |-> "none"]

\* --------------------------------------------------- db_1cd_8x::pages
\* pages::pages(cached_): memset(&db_hdr, 0).
ZeroHdr == [sig |-> "", version |-> 0, length |-> 0, page_size |-> 0]

\* The header bytes a read of n bytes at offset 0 puts over db_hdr, field by
\* field: sig at 0..7, version at 8..11, length at 12..15, unknown at 16..19,
\* page_size at 20..23 (n is one of the field boundaries).
hdr_overlay(old, disk, n) ==
    [sig       |-> IF n >= 8 THEN disk.sig ELSE old.sig,
     version   |-> IF n >= 12 THEN disk.version ELSE old.version,
     length    |-> IF n >= 16 THEN disk.length ELSE old.length,
     page_size |-> IF n >= HDR_SIZE THEN disk.page_size ELSE old.page_size]

PageSizes == {4096, 8192, 16384, 32768, 65536}

\* pages::cache_init: slots 0..cache_size, all in the pool, in address order.
cache_init_data(n)  == [k \in 0..n |-> Zeros]
cache_init_pool(n)  == [k \in 1..(n + 1) |-> k - 1]

\* A size check that lets a database of no pages through.
open_size_bad_no_length(file_size, h) ==
    \/ file_size % h.page_size # 0
    \/ file_size \div h.page_size # h.length

\* pages::open, the check of the file size against the header.
open_size_bad(file_size, h) ==
    \/ file_size % h.page_size # 0
    \/ file_size \div h.page_size # h.length
    \/ h.length = 0

\* pages::open up to the call of cache_init: the error code and db_hdr after it.
pages_open(hdr, io) ==
    LET fo == file_open(io)
    IN  IF ~file_error_ok(fo.fe)
        THEN [code |-> "file_system", hdr |-> hdr, f |-> fo.f]
        ELSE
        LET rd == file_read(fo.f, HDR_SIZE, 0, io)
            h1 == hdr_overlay(hdr, io.disk, rd.readed)
        IN  IF ~file_error_ok(rd.fe)
            THEN [code |-> "file_system", hdr |-> h1, f |-> fo.f]
            ELSE IF h1.sig # SIG_OK
            THEN [code |-> "bad_file", hdr |-> h1, f |-> fo.f]
            ELSE IF h1.version # VERSION_8_2_14 /\ h1.version # VERSION_8_3_8
            THEN [code |-> "version", hdr |-> h1, f |-> fo.f]
            ELSE
            LET h2 == IF h1.version = VERSION_8_2_14
                      THEN [h1 EXCEPT !.page_size = 4096] ELSE h1
            IN  IF h1.version # VERSION_8_2_14 /\ h2.page_size \notin PageSizes
                THEN [code |-> "bad_file", hdr |-> h2, f |-> fo.f]
                ELSE IF open_size_bad(fo.f.file_size, h2)
                THEN [code |-> "bad_file", hdr |-> h2, f |-> fo.f]
                ELSE [code |-> "none", hdr |-> h2, f |-> fo.f]


\* An index check that lets page 0 through.
view_index_ok_zero(hdr, index_) == index_ < hdr.length

\* pages::view, the argument checks (std::size_t sums wrap modulo SIZE_MOD).
view_index_ok(hdr, index_) == ~(index_ = 0 \/ index_ >= hdr.length)

view_interval_ok(hdr, count_, pos_) ==
    ~(\/ pos_ >= hdr.page_size
      \/ (pos_ + count_) % SIZE_MOD > hdr.page_size
      \/ (pos_ + count_) % SIZE_MOD < pos_)

\* The offset of the page before: pages counted from 1 instead of 0.
view_pos_in_file_from_one(hdr, index_) == hdr.page_size * (index_ - 1)

\* pages::view, 'pos_in_file': the file offset of the page.
view_pos_in_file(hdr, index_) == hdr.page_size * index_

\* The front of the pool instead of its back.
view_page_from_pool_front(pool) == pool[1]

\* pages::view, the slot the page is read into: *cache_pool.rbegin().
view_page_from_pool(pool) == pool[Len(pool)]

\* An admission that forgets to give the evicted slot back.
view_pool_after_leak(pool, freed_page) == SubSeq(pool, 1, Len(pool) - 1)

\* An admission that forgets to take the loaded slot out of the pool.
view_pool_after_no_pop(pool, freed_page) ==
    IF has_value(freed_page) THEN Append(pool, value(freed_page)[2]) ELSE pool

\* pages::view, the pool after an admission that evicted 'freed_page':
\* pop_back(), then push_back(freed_page->second) if there is one.
view_pool_after(pool, freed_page) ==
    LET popped == SubSeq(pool, 1, Len(pool) - 1)
    IN  IF has_value(freed_page)
        THEN Append(popped, value(freed_page)[2])
        ELSE popped

\* pages::view, the assert 'cache_pool.size() < cache_size' before push_back.
view_pool_assert(pool, freed_page, n) ==
    has_value(freed_page) => Len(pool) - 1 < n

\* pages::view, the pointer returned: reinterpret_cast<unsigned char*>(ptr) + pos_,
\* as <<slot, offset in the slot>>.
view_result(ptr, pos_) == <<ptr, pos_>>

\* The call record of a view that ended before the cache was looked at.
\* outcome: "ok", "throw_index", "throw_interval", "throw_read" or "abort";
\* from: the sub-cache that answered; read: a file read was issued, fe: what it
\* returned; ret: the pointer returned; freed: the pair the admission evicted.
ViewCall(index_, count_, pos_, outcome_) ==
    [name |-> "view", index |-> index_, count |-> count_, pos |-> pos_,
     outcome |-> outcome_, from |-> "none", read |-> FALSE, fe |-> NO_ERROR,
     ret |-> None, freed |-> None]

\* ------------------------------------------------------------ actions
\* assert(c).  With assert compiled in (a debug build) a false c aborts the
\* process; under NDEBUG (a release build) nothing is evaluated.  The builds a
\* false c can abort: both are outcomes of the program as written.
assert_aborts(c) == IF c THEN {FALSE} ELSE {TRUE, FALSE}

\* pages::pages(cached_): the sub-cache constructors assert their capacity.
pages_ctor ==
    /\ phase = "start"
    /\ \E aborted \in assert_aborts(twoq_ctor_asserts(cache_size)) :
         IF aborted
         THEN /\ phase' = "aborted"
              /\ UNCHANGED <<db_hdr, cache_queue>>
         ELSE /\ phase' = "closed"
              /\ db_hdr' = ZeroHdr
              /\ cache_queue' = twoq_ctor(cache_size)
    /\ op' = [name |-> "ctor"]
    /\ UNCHANGED <<cache_size, file_iface, cache_data, cache_pool>>

\* pages::open(path_name_) on the file and the I/O outcomes 'io'.
pages_open_call(io) ==
    /\ phase = "closed"
    /\ LET r == pages_open(db_hdr, io)
       IN  /\ db_hdr' = r.hdr
           /\ op' = [name |-> "open", io |-> io, code |-> r.code]
           /\ IF r.code = "none"
              THEN /\ phase' = "open"
                   /\ file_iface' = r.f
                   /\ cache_data' = cache_init_data(cache_size)
                   /\ cache_pool' = cache_init_pool(cache_size)
                   /\ cache_queue' = twoq_clear(cache_queue)
              ELSE UNCHANGED <<phase, file_iface, cache_data, cache_pool, cache_queue>>
    /\ UNCHANGED cache_size

\* The part of the object that view() changes.
PagesState ==
    [phase |-> phase, cache_data |-> cache_data, cache_pool |-> cache_pool,
     cache_queue |-> cache_queue]

\* pages::view(index_, count_, pos_) run on the state s; io: the outcome of the
\* file read of a miss.  The set of [s, call]: the state view leaves and the
\* record of the call (several when an assert that fails decides).
view_outcomes(s, index_, count_, pos_, io) ==
    IF ~view_index_ok(db_hdr, index_)
    THEN {[s |-> s, call |-> ViewCall(index_, count_, pos_, "throw_index")]}
    ELSE IF ~view_interval_ok(db_hdr, count_, pos_)
    THEN {[s |-> s, call |-> ViewCall(index_, count_, pos_, "throw_interval")]}
    ELSE
    LET cached_page == twoq_find(s.cache_queue, index_)
    IN  IF has_value(cached_page.result)
        THEN {[s    |-> [s EXCEPT !.cache_queue = cached_page.q],
               call |-> [ViewCall(index_, count_, pos_, "ok") EXCEPT
                            !.from = cached_page.from,
                            !.ret = Some(view_result(value(cached_page.result), pos_))]]}
        ELSE IF Len(s.cache_pool) < 1
        \* assert(cache_pool.size() >= 1), or *rbegin() of an empty vector
        THEN {[s    |-> [s EXCEPT !.phase = "aborted", !.cache_queue = cached_page.q],
               call |-> ViewCall(index_, count_, pos_, "abort")]}
        ELSE
        LET page_from_pool == view_page_from_pool(s.cache_pool)
            pos_in_file    == view_pos_in_file(db_hdr, index_)
            rd == file_read(file_iface, db_hdr.page_size, pos_in_file, io)
            call == [ViewCall(index_, count_, pos_, "ok") EXCEPT
                        !.read = TRUE, !.fe = rd.fe]
        IN  IF ~file_error_ok(rd.fe)
            THEN {[s    |-> [s EXCEPT
                               !.cache_data =
                                   IF rd.readed = 0 THEN @
                                   ELSE [@ EXCEPT ![page_from_pool] = Garbage],
                               !.cache_queue = cached_page.q],
                   call |-> [call EXCEPT !.outcome = "throw_read"]]}
            ELSE
            LET freed_page == twoq_push(s.cache_queue, <<index_, page_from_pool>>)
                data == [s.cache_data EXCEPT ![page_from_pool] =
                            IF rd.whole THEN FileAt(pos_in_file) ELSE Garbage]
            IN  {IF freed_page.fault \/ aborted
                 THEN [s    |-> [s EXCEPT !.phase = "aborted", !.cache_data = data],
                       call |-> [call EXCEPT !.outcome = "abort"]]
                 ELSE [s    |-> [s EXCEPT
                                   !.cache_data = data,
                                   !.cache_queue = freed_page.q,
                                   !.cache_pool =
                                       view_pool_after(s.cache_pool, freed_page.result)],
                       call |-> [call EXCEPT
                                   !.freed = freed_page.result,
                                   !.ret = Some(view_result(page_from_pool, pos_))]] :
                 aborted \in assert_aborts(
                     view_pool_assert(s.cache_pool, freed_page.result, cache_size))}

\* pages::view as a step of the program.
pages_view(index_, count_, pos_, io) ==
    /\ phase = "open"
    /\ UNCHANGED <<cache_size, db_hdr, file_iface>>
    /\ \E o \in view_outcomes(PagesState, index_, count_, pos_, io) :
         /\ phase' = o.s.phase
         /\ cache_data' = o.s.cache_data
         /\ cache_pool' = o.s.cache_pool
         /\ cache_queue' = o.s.cache_queue
         /\ op' = o.call


\* ------------------------------------------------------------- inputs
CacheSizes == 1..MaxCacheSize

\* The outcomes of the positioned read of a page.
ReadIo ==
    {[read_ok |-> TRUE,  touched |-> FALSE, last_error |-> NO_ERROR],
     [read_ok |-> FALSE, touched |-> TRUE,  last_error |-> ERROR_ANY]}

Disk(sig_, version_, length_, page_size_) ==
    [sig |-> sig_, version |-> version_, length |-> length_, page_size |-> page_size_]

OpenIo(disk_, file_size_, create_, size_, rio) ==
    [disk |-> disk_, file_size |-> file_size_, create_ok |-> create_, size_ok |-> size_,
     read_ok |-> rio.read_ok, touched |-> rio.touched, last_error |-> rio.last_error]

GoodIo == [read_ok |-> TRUE, touched |-> FALSE, last_error |-> NO_ERROR]

\* The files the cache is exercised on: well-formed databases of 4 KiB pages,
\* one of the older version whose page-size word is not 4096, and a bad one.
CacheFiles ==
    {OpenIo(Disk(SIG_OK, VERSION_8_3_8, n, 4096), n * 4096, TRUE, TRUE, GoodIo) :
        n \in {2, MaxLength}}
    \cup {OpenIo(Disk(SIG_OK, VERSION_8_2_14, 3, 0), 3 * 4096, TRUE, TRUE, GoodIo),
          OpenIo(Disk(SIG_BAD, VERSION_8_3_8, 2, 4096), 2 * 4096, TRUE, TRUE, GoodIo)}

\* The calls <<index_, count_, pos_>> of view() the caller makes: the last byte
\* of a page in range, and one call for each way the arguments are refused.
ViewCalls(hdr) ==
    {<<i, 1, hdr.page_size - 1>> : i \in 0..hdr.length}
    \cup {<<1, 1, hdr.page_size>>}

\* ------------------------------------------------------ specification
\* The state before the constructor of pages has run, but for the capacity of
\* the cache it will be given.
InitRest ==
    /\ phase = "start"
    /\ db_hdr = ZeroHdr
    /\ file_iface = [valid |-> FALSE, file_size |-> 0]
    /\ cache_data = <<>>
    /\ cache_pool = <<>>
    /\ cache_queue = twoq_ctor(0)
    /\ op = [name |-> "none"]
    /\ seen = 0
    /\ loads = 0
    /\ file_data = <<>>
    /\ obj = NoObject
    /\ calls = 0
    /\ rec = NoRecords
    /\ root = NoRoot
    /\ prog = NoProgram

Init == cache_size \in CacheSizes /\ InitRest

Construct == pages_ctor /\ UNCHANGED <<seen, loads, layers>>

Open == (\E io \in CacheFiles : pages_open_call(io)) /\ UNCHANGED <<seen, loads, layers>>

\* The caller of view().  Pages are all alike to the cache, so the caller asks
\* for the pages it has not had loaded yet in increasing order of index (or
\* passes an index that is out of range), and it stops after MaxLoads loaded
\* pages.
View ==
    \E a \in {c \in ViewCalls(db_hdr) : c[1] <= seen + 1 \/ c[1] >= db_hdr.length},
       io \in ReadIo :
        /\ pages_view(a[1], a[2], a[3], io)
        /\ LET loaded == op'.read /\ op'.outcome # "throw_read"
           IN  /\ seen' = (IF loaded /\ a[1] > seen THEN a[1] ELSE seen)
               /\ loads' = (IF loaded THEN loads + 1 ELSE loads)
        /\ loads' <= MaxLoads
        /\ UNCHANGED layers

Next == Construct \/ Open \/ View

Spec == Init /\ [][Next]_vars


\* ------------------------------------------- specification of open()
\* The files open() is tried on: every combination of a right or a supported
\* or unsupported version word, a length, and a page-size word, with file
\* sizes that match it and that do not; a file with a wrong signature;
\* 12-byte files (signature and version only), whose header read is short; and
\* the failures of CreateFileW, GetFileSizeEx and ReadFile.
OpenVersions      == {VERSION_8_2_14, VERSION_8_3_8, 0}
OpenPageSizeWords == PageSizes \cup {0, 5000}
OpenLengths       == {0, 1, 2}
StaleIo == [read_ok |-> TRUE, touched |-> FALSE, last_error |-> ERROR_ANY]
FailedReads ==
    {[read_ok |-> FALSE, touched |-> t, last_error |-> ERROR_ANY] : t \in BOOLEAN}

OpenDisks ==
    {Disk(SIG_OK, v, n, w) :
        v \in OpenVersions, n \in OpenLengths, w \in OpenPageSizeWords}
    \cup {Disk(SIG_BAD, VERSION_8_3_8, 2, 4096)}

OpenSizes(d) ==
    {d.length * d.page_size, d.length * 4096,
     d.length * d.page_size + 4096, d.length * d.page_size + 1}

ShortDisks == {Disk(SIG_OK, v, 2, 4096) : v \in OpenVersions}

GoodDisk == Disk(SIG_OK, VERSION_8_3_8, 2, 4096)

OpenFiles ==
    UNION {{OpenIo(d, n, TRUE, TRUE, GoodIo) : n \in OpenSizes(d)} : d \in OpenDisks}
    \cup {OpenIo(d, 12, TRUE, TRUE, rio) : d \in ShortDisks, rio \in {GoodIo, StaleIo}}
    \cup {OpenIo(GoodDisk, 2 * 4096, FALSE, TRUE, GoodIo),
          OpenIo(GoodDisk, 2 * 4096, TRUE, FALSE, GoodIo)}
    \cup {OpenIo(GoodDisk, 2 * 4096, TRUE, TRUE, rio) : rio \in FailedReads}

InitOpen == Init /\ cache_size = MaxCacheSize

OpenAny == (\E io \in OpenFiles : pages_open_call(io)) /\ UNCHANGED <<seen, loads, layers>>

NextOpen == Construct \/ OpenAny

SpecOpen == InitOpen /\ [][NextOpen]_vars

\* ------------------------------------- specification of cache::twoq
\* A twoq of MaxCacheSize entries used on its own, by a caller that pushes
\* without looking first, so that a key can sit in several sub-caches at once.
TwoQKeys   == {1, 2, 3}
TwoQValues == {1, 2}

InitTwoQ ==
    /\ phase = "cache"
    /\ cache_size = MaxCacheSize
    /\ cache_queue = twoq_ctor(MaxCacheSize)
    /\ db_hdr = ZeroHdr
    /\ file_iface = [valid |-> FALSE, file_size |-> 0]
    /\ cache_data = <<>>
    /\ cache_pool = <<>>
    /\ op = [name |-> "none"]
    /\ seen = 0
    /\ loads = 0
    /\ file_data = <<>>
    /\ obj = NoObject
    /\ calls = 0
    /\ rec = NoRecords
    /\ root = NoRoot
    /\ prog = NoProgram

TwoQFind ==
    /\ phase = "cache"
    /\ \E index_ \in TwoQKeys :
         LET r == twoq_find(cache_queue, index_)
         IN  /\ cache_queue' = r.q
             /\ op' = [name |-> "find", index |-> index_,
                       result |-> r.result, from |-> r.from]
    /\ UNCHANGED <<phase, cache_size, db_hdr, file_iface, cache_data, cache_pool,
                   seen, loads, layers>>

TwoQPush ==
    /\ phase = "cache"
    /\ \E index_ \in TwoQKeys, v \in TwoQValues :
         LET r == twoq_push(cache_queue, <<index_, v>>)
         IN  /\ phase' = IF r.fault THEN "aborted" ELSE phase
             /\ cache_queue' = r.q
             /\ op' = [name |-> "push", index |-> index_,
                       result |-> r.result, from |-> "none"]
    /\ UNCHANGED <<cache_size, db_hdr, file_iface, cache_data, cache_pool,
                   seen, loads, layers>>

NextTwoQ == TwoQFind \/ TwoQPush

SpecTwoQ == InitTwoQ /\ [][NextTwoQ]_vars

\* ------------------------------------ specification of view() arguments
\* view() called with arguments on both sides of each limit it checks: page
\* indexes around 1 and length, counts and offsets around 0 and page_size, and
\* counts and offsets so large that their sum wraps.
ViewArgIndexes(hdr) == {0, 1, hdr.length - 1, hdr.length, hdr.length + 1}
ViewArgSizes(hdr)   == {0, 1, hdr.page_size - 1, hdr.page_size, hdr.page_size + 1,
                        SIZE_MOD - 1}

InitView == Init /\ cache_size = MaxCacheSize

ViewArgs ==
    /\ \E index_ \in ViewArgIndexes(db_hdr),
          count_ \in ViewArgSizes(db_hdr), pos_ \in ViewArgSizes(db_hdr),
          io \in ReadIo :
            pages_view(index_, count_, pos_, io)
    /\ UNCHANGED <<seen, loads, layers>>

NextView == Construct \/ Open \/ ViewArgs

SpecView == InitView /\ [][NextView]_vars

\* -------------------------------------------------- db_1c_83::object
OBJ_TYPE     == 64796       \* 0xFD1C
OBJ_HDR_SIZE == 24          \* sizeof(obj_hdr), packed
INDEX_SIZE   == 4           \* sizeof(pages::index_type)

\* What a page of the file holds: an object header (obj_hdr and blocks[]), a
\* placement table (pmt_hdr::data_blocks[]), or data.  The entries of blocks[]
\* and data_blocks[] past the ones listed are 0.
ObjPage(type_, pmt_type_, length_, blocks_) ==
    [kind |-> "obj", type |-> type_, pmt_type |-> pmt_type_, length |-> length_,
     blocks |-> blocks_]
PmtPage(data_blocks_) == [kind |-> "pmt", data_blocks |-> data_blocks_]
DataPage == [kind |-> "data"]

\* A page of table records: bytes_ maps offsets of the page to the bytes they
\* hold; the bytes at the other offsets are 0.
RowsPage(bytes_) == [kind |-> "rows", bytes |-> bytes_]

\* The page of the file that the cache slot 'ptr' holds.
page_in_slot(s, ptr) ==
    LET held == s.cache_data[ptr]
        i    == held[2] \div db_hdr.page_size
    IN  IF held[1] = "file" /\ i \in 1..Len(file_data) THEN file_data[i] ELSE DataPage

\* reinterpret_cast<const obj_hdr*>: a page read as an object header.  A page
\* that holds something else does not start with 0xFD1C.
as_obj_hdr(page) ==
    IF page.kind = "obj"
    THEN [type |-> page.type, pmt_type |-> page.pmt_type, length |-> page.length,
          blocks |-> page.blocks]
    ELSE [type |-> 0, pmt_type |-> 0, length |-> 0, blocks |-> <<>>]

\* hdr->blocks[n] and pmt->data_blocks[n].
index_at(blocks_, n) == IF n + 1 <= Len(blocks_) THEN blocks_[n + 1] ELSE 0
as_pmt(page) == IF page.kind = "pmt" THEN page.data_blocks ELSE <<>>

\* pages::read(dst_buff_, index_, count_, pos_): memcpy of what view returns.
\* The set of [s, outcome, bytes]; bytes: the run <<file offset, count>> of file
\* bytes copied, and ptr: the slot they came from.
pages_read_outcomes(s, index_, count_, pos_) ==
    UNION {{[s       |-> o.s,
             outcome |-> o.call.outcome,
             ptr     |-> IF o.call.outcome = "ok" THEN value(o.call.ret)[1] ELSE 0,
             bytes   |-> IF o.call.outcome = "ok"
                         THEN <<o.s.cache_data[value(o.call.ret)[1]][2]
                                    + value(o.call.ret)[2], count_>>
                         ELSE <<>>] :
            o \in view_outcomes(s, index_, count_, pos_, io)} : io \in ReadIo}

\* object::object(pages_, index_).  The set of [s, outcome, obj].
object_ctor_outcomes(s, index_) ==
    IF db_hdr.version # VERSION_8_3_8
    THEN {[s |-> s, outcome |-> "throw_version", obj |-> NoObject]}
    ELSE IF db_hdr.page_size < OBJ_HDR_SIZE
    THEN {[s |-> s, outcome |-> "throw_page_size", obj |-> NoObject]}
    ELSE
    {IF r.outcome # "ok"
     THEN [s |-> r.s, outcome |-> r.outcome, obj |-> NoObject]
     ELSE LET hdr == as_obj_hdr(page_in_slot(r.s, r.ptr))
              pages_count == hdr.length \div db_hdr.page_size +
                             (IF hdr.length % db_hdr.page_size = 0 THEN 0 ELSE 1)
          IN  IF hdr.type # OBJ_TYPE \/ (hdr.pmt_type # 0 /\ hdr.pmt_type # 1)
              THEN [s |-> r.s, outcome |-> "throw_type", obj |-> NoObject]
              ELSE IF pages_count > db_hdr.length
              THEN [s |-> r.s, outcome |-> "throw_size", obj |-> NoObject]
              ELSE [s |-> r.s, outcome |-> "ok",
                    obj |-> [valid |-> TRUE, index |-> index_, hdr |-> hdr]] :
     r \in pages_read_outcomes(s, index_, db_hdr.page_size, 0)}

\* object::size().
object_size(o) == o.hdr.length

\* object::page_num_to_index(page_num_).  The set of [s, outcome, index].
page_num_to_index(s, hdr, page_num_) ==
    LET page_size      == db_hdr.page_size
        records_in_hdr == (page_size - OBJ_HDR_SIZE) \div INDEX_SIZE
        records_in_pmt == page_size \div INDEX_SIZE
        pmt_page_num   == page_num_ \div records_in_pmt
    IN  IF pmt_page_num >= records_in_hdr
        THEN {[s |-> s, outcome |-> "throw_pmt", index |-> 0]}
        ELSE
        LET pmt_page_index == index_at(hdr.blocks, pmt_page_num)
            pmt_record_num == page_num_ % records_in_pmt
        IN  UNION {{[s       |-> v.s,
                     outcome |-> v.call.outcome,
                     index   |-> IF v.call.outcome = "ok"
                                 THEN index_at(
                                        as_pmt(page_in_slot(v.s, value(v.call.ret)[1])),
                                        pmt_record_num)
                                 ELSE 0] :
                    v \in view_outcomes(s, pmt_page_index, page_size, 0, io)} :
                   io \in ReadIo}

\* A direct lookup that allows as many entries as a whole page would hold.
page_num_to_index_lite_whole_page(s, hdr, page_num_) ==
    LET records_in_hdr == db_hdr.page_size \div INDEX_SIZE
    IN  IF page_num_ >= records_in_hdr
        THEN {[s |-> s, outcome |-> "throw_pmt", index |-> 0]}
        ELSE {[s |-> s, outcome |-> "ok", index |-> index_at(hdr.blocks, page_num_)]}

\* object::page_num_to_index_lite(page_num_).
page_num_to_index_lite(s, hdr, page_num_) ==
    LET records_in_hdr == (db_hdr.page_size - OBJ_HDR_SIZE) \div INDEX_SIZE
    IN  IF page_num_ >= records_in_hdr
        THEN {[s |-> s, outcome |-> "throw_pmt", index |-> 0]}
        ELSE {[s |-> s, outcome |-> "ok", index |-> index_at(hdr.blocks, page_num_)]}

\* object::read, the interval check ((pos_ + count_) wraps modulo SIZE_MOD).
object_interval_ok(hdr, count_, pos_) ==
    ~(\/ pos_ >= hdr.length
      \/ (pos_ + count_) % SIZE_MOD > hdr.length
      \/ (pos_ + count_) % SIZE_MOD < pos_)

\* object::read, the slice of a page the loop copies next.
object_to_read(count_, pos_in_page) ==
    LET to_read == db_hdr.page_size - pos_in_page
    IN  IF count_ < to_read THEN count_ ELSE to_read

\* A read that starts every request at the first page of the object.
object_first_page_zero(pos_) == 0

\* object::read, the page number the loop starts at.
object_first_page(pos_) == pos_ \div db_hdr.page_size

\* object::read, the loop.  dst: the runs <<file offset, count>> of file bytes
\* copied to dst_buff_ so far, in the order of dst_buff_.
RECURSIVE object_read_loop(_, _, _, _, _, _)
object_read_loop(s, hdr, count_, page_num, pos_in_page, dst) ==
    IF count_ = 0
    THEN {[s |-> s, outcome |-> "ok", dst |-> dst]}
    ELSE
    LET to_read == object_to_read(count_, pos_in_page)
        found   == IF hdr.pmt_type = 1
                   THEN page_num_to_index(s, hdr, page_num)
                   ELSE page_num_to_index_lite(s, hdr, page_num)
    IN  UNION {
          IF i.outcome # "ok"
          THEN {[s |-> i.s, outcome |-> i.outcome, dst |-> dst]}
          ELSE UNION {
                 IF r.outcome # "ok"
                 THEN {[s |-> r.s, outcome |-> r.outcome, dst |-> dst]}
                 ELSE object_read_loop(r.s, hdr, count_ - to_read, page_num + 1, 0,
                                       Append(dst, r.bytes)) :
                 r \in pages_read_outcomes(i.s, i.index, to_read, pos_in_page)} :
          i \in found}

\* object::read(dst_buff_, count_, pos_).  The set of [s, outcome, dst].
object_read_outcomes(s, hdr, count_, pos_) ==
    IF ~object_interval_ok(hdr, count_, pos_)
    THEN {[s |-> s, outcome |-> "throw_object_interval", dst |-> <<>>]}
    ELSE object_read_loop(s, hdr, count_, object_first_page(pos_),
                          pos_ % db_hdr.page_size, <<>>)

\* The state s becomes the state of the program.
pages_becomes(s) ==
    /\ phase' = s.phase
    /\ cache_data' = s.cache_data
    /\ cache_pool' = s.cache_pool
    /\ cache_queue' = s.cache_queue
    /\ UNCHANGED <<cache_size, db_hdr, file_iface, seen, loads, file_data>>

\* object::object(pages_, index_) as a step of the program.
object_ctor(index_) ==
    /\ phase = "open"
    /\ \E o \in object_ctor_outcomes(PagesState, index_) :
         /\ pages_becomes(o.s)
         /\ obj' = o.obj
         /\ op' = [name |-> "object", index |-> index_, outcome |-> o.outcome]
    /\ UNCHANGED <<rec, root, prog>>

\* object::read(dst_buff_, count_, pos_) as a step of the program.
object_read(count_, pos_) ==
    /\ phase = "open" /\ obj.valid
    /\ \E o \in object_read_outcomes(PagesState, obj.hdr, count_, pos_) :
         /\ pages_becomes(o.s)
         /\ op' = [name |-> "object_read", count |-> count_, pos |-> pos_,
                   outcome |-> o.outcome, dst |-> o.dst]
    /\ UNCHANGED <<obj, rec, root, prog>>

\* ------------------------------------- specification of object::read
\* A database of 4 KiB pages.  Page 1: an object of two pages and a bit placed
\* by its header (pages 3, 2, 4).  Page 5: an object of one page and a bit
\* placed by the table in page 6 (pages 4, 2).  Page 7: an empty object.
\* Page 8: an object whose second page is page 0.  Page 9: an object longer
\* than the file.  Page 10: a header of another type.
ObjectPages ==
    <<ObjPage(OBJ_TYPE, 0, 2 * 4096 + 100, <<3, 2, 4>>),
      DataPage, DataPage, DataPage,
      ObjPage(OBJ_TYPE, 1, 4096 + 100, <<6>>),
      PmtPage(<<4, 2>>),
      ObjPage(OBJ_TYPE, 0, 0, <<>>),
      ObjPage(OBJ_TYPE, 0, 2 * 4096, <<2>>),
      ObjPage(OBJ_TYPE, 1, 12 * 4096, <<6>>),
      ObjPage(OBJ_TYPE, 2, 100, <<2>>)>>

\* The file with these pages, as open() finds it.
FileOf(pages_) ==
    OpenIo(Disk(SIG_OK, VERSION_8_3_8, Len(pages_) + 1, 4096),
           (Len(pages_) + 1) * 4096, TRUE, TRUE, GoodIo)

\* The requests read() is tried with: counts and offsets around 0, the page
\* size and the object's length, and a count that makes pos_ + count_ wrap.
ReadCounts(o) == {0, 1, 100, 4096, 4097, o.hdr.length, SIZE_MOD - 1}
ReadOffsets(o) == {0, 1, 4095, 4096, 4196, 8191,
                   o.hdr.length - 1, o.hdr.length} \cap 0..SIZE_MOD

InitObject == Init /\ cache_size = MaxCacheSize

OpenObjects ==
    /\ pages_open_call(FileOf(ObjectPages))
    /\ file_data' = ObjectPages
    /\ UNCHANGED <<seen, loads, obj, calls, rec, root, prog>>

\* The caller makes MaxCalls calls.
Called == calls < MaxCalls /\ calls' = calls + 1

ObjectNew == Called /\ \E index_ \in 0..(Len(file_data) + 1) : object_ctor(index_)

ObjectRead ==
    /\ Called /\ obj.valid
    /\ \E count_ \in ReadCounts(obj), pos_ \in ReadOffsets(obj) :
         object_read(count_, pos_)

NextObject == Construct \/ OpenObjects \/ ObjectNew \/ ObjectRead

SpecObject == InitObject /\ [][NextObject]_vars

\* --------------------------------------------------- db_1c_8x::blob
BLOB_BLK_SIZE  == 256       \* sizeof(blob_blk), packed
BLOB_DATA_SIZE == 250       \* sizeof(blob_blk::data)
BLOB_DATA_AT   == 6         \* offsetof(blob_blk, data)
INDEX_MAX      == 1073741823 \* numeric_limits<std::uint32_t>::max() (scaled to TLC's integers)

\* A page of BLOB blocks: blob_blk::nextblock and blob_blk::length of each of
\* the blocks listed; the blocks past them are zeros.
Blk(nextblock_, length_) == [nextblock |-> nextblock_, length |-> length_]
BlobPage(blocks_) == [kind |-> "blob", blocks |-> blocks_]

\* A block read that delivers zeros.
blk_at_zeros(at) == Blk(0, 0)

\* A block read that cuts 'length' down to the size of 'data'.
blk_at_clamped(at) ==
    LET i == at \div db_hdr.page_size
        n == (at % db_hdr.page_size) \div BLOB_BLK_SIZE
    IN  IF i \in 1..Len(file_data) /\ file_data[i].kind = "blob"
           /\ n + 1 <= Len(file_data[i].blocks)
        THEN [file_data[i].blocks[n + 1] EXCEPT !.length = Min(@, BLOB_DATA_SIZE)]
        ELSE Blk(0, 0)

\* The blob_blk that starts at the file offset 'at'.
blk_at(at) ==
    LET i == at \div db_hdr.page_size
        n == (at % db_hdr.page_size) \div BLOB_BLK_SIZE
    IN  IF i \in 1..Len(file_data) /\ file_data[i].kind = "blob"
           /\ n + 1 <= Len(file_data[i].blocks)
        THEN file_data[i].blocks[n + 1]
        ELSE Blk(0, 0)

\* vector::size() of a buffer made of the runs <<file offset, count>>.
RECURSIVE RunsSize(_)
RunsSize(dst) == IF dst = <<>> THEN 0 ELSE Head(dst)[2] + RunsSize(Tail(dst))

\* blob::blob(pages_, index_).  The set of [s, outcome, obj]: obj is obj_iface.
blob_ctor_outcomes(s, index_) ==
    {IF c.outcome # "ok" THEN c
     ELSE LET size      == object_size(c.obj)
              blk_count == size \div BLOB_BLK_SIZE
          IN  IF size % BLOB_BLK_SIZE # 0 \/ blk_count > INDEX_MAX
              THEN [s |-> c.s, outcome |-> "throw_blob_size", obj |-> NoObject]
              ELSE c :
     c \in object_ctor_outcomes(s, index_)}

\* A loop protection that gives up two blocks early.
blob_loop_prot_less(blk_count) == blk_count - 2

\* A buffer reserved twice as large as asked.
blob_capacity_double(size_) == 2 * size_

\* A loop protection that allows one block more.
blob_loop_prot_more(blk_count) == blk_count + 1

\* blob::get, the iterations the loop is allowed: loop_prot = blk_count.
blob_loop_prot(blk_count) == blk_count

\* vector::reserve(size_) of an empty vector: the capacity is size_.
blob_capacity(size_) == size_

\* blob::get, the do-while loop.  result: the runs <<file offset, count>> of
\* the bytes appended so far; reads: the blocks read so far.
RECURSIVE blob_get_loop(_, _, _, _, _, _, _)
blob_get_loop(s, o, index_, size_, loop_prot, result, reads) ==
    LET blk_count == object_size(o) \div BLOB_BLK_SIZE
        out(s_, outcome_, result_, reads_) ==
            [s |-> s_, outcome |-> outcome_, result |-> result_, reads |-> reads_]
    IN  IF index_ >= blk_count
        THEN {out(s, "throw_blob_index", result, reads)}
        ELSE UNION {
          IF r.outcome # "ok"
          THEN {out(r.s, r.outcome, result, reads)}
          ELSE
          LET buffer == blk_at(r.dst[1][1])
              data   == <<r.dst[1][1] + BLOB_DATA_AT, buffer.length>>
              size   == RunsSize(result)
              more   == Append(result, data)
          IN  IF \/ buffer.length > BLOB_DATA_SIZE
                 \/ (buffer.length = 0 /\ buffer.nextblock # 0)
              THEN {out(r.s, "throw_blob_length", result, reads + 1)}
              ELSE IF size_ # 0 /\ blob_capacity(size_) - size < buffer.length
              THEN {out(r.s, "throw_blob_capacity", result, reads + 1)}
              ELSE IF buffer.nextblock = 0
              THEN IF size_ # 0 /\ size_ # size + buffer.length
                   THEN {out(r.s, "throw_blob_expected", more, reads + 1)}
                   ELSE {out(r.s, "ok", more, reads + 1)}
              ELSE IF loop_prot - 1 # 0
              THEN blob_get_loop(r.s, o, buffer.nextblock, size_, loop_prot - 1,
                                 more, reads + 1)
              ELSE {out(r.s, "throw_blob_loop", more, reads + 1)} :
          r \in object_read_outcomes(s, o.hdr, BLOB_BLK_SIZE, BLOB_BLK_SIZE * index_)}

\* blob::get(index_, size_).  The set of [s, outcome, result, reads].
blob_get_outcomes(s, o, index_, size_) ==
    IF index_ = 0
    THEN {[s |-> s, outcome |-> "throw_blob_param", result |-> <<>>, reads |-> 0]}
    ELSE blob_get_loop(s, o, index_, size_,
                       blob_loop_prot(object_size(o) \div BLOB_BLK_SIZE), <<>>, 0)

\* blob::blob(pages_, index_) as a step of the program.
blob_ctor(index_) ==
    /\ phase = "open"
    /\ \E o \in blob_ctor_outcomes(PagesState, index_) :
         /\ pages_becomes(o.s)
         /\ obj' = o.obj
         /\ op' = [name |-> "blob", index |-> index_, outcome |-> o.outcome]
    /\ UNCHANGED <<rec, root, prog>>

\* blob::get(index_, size_) as a step of the program.
blob_get(index_, size_) ==
    /\ phase = "open" /\ obj.valid
    /\ \E o \in blob_get_outcomes(PagesState, obj, index_, size_) :
         /\ pages_becomes(o.s)
         /\ op' = [name |-> "blob_get", index |-> index_, size |-> size_,
                   outcome |-> o.outcome, result |-> o.result, reads |-> o.reads]
    /\ UNCHANGED <<obj, rec, root, prog>>

\* ---------------------------------------- specification of blob::get
\* A database of 4 KiB pages with BLOB objects.
\* Page 1: an object of two blocks, page 2: block 0 links to 1, block 1 to 0.
\* Page 3: an object of eleven blocks, page 4: the chain 1 -> 3 -> 2 of 250,
\*   250 and 20 bytes; blocks 4 and 5 linked to each other; block 6 linked past
\*   the object; block 7 empty with a link; block 8 longer than its data; the
\*   chain 9 -> 10 of 10 and 10 bytes.
\* Page 5: an object of four blocks, page 6: the chain 1 -> 2 -> 3.
\* Page 7: an empty object.  Page 8: an object of 300 bytes.
BlobPages ==
    <<ObjPage(OBJ_TYPE, 0, 2 * 256, <<2>>),
      BlobPage(<<Blk(1, 5), Blk(0, 7)>>),
      ObjPage(OBJ_TYPE, 0, 11 * 256, <<4>>),
      BlobPage(<<Blk(0, 0), Blk(3, 250), Blk(0, 20), Blk(2, 250), Blk(5, 10),
                 Blk(4, 10), Blk(11, 10), Blk(1, 0), Blk(0, 251), Blk(10, 10),
                 Blk(0, 10)>>),
      ObjPage(OBJ_TYPE, 0, 4 * 256, <<6>>),
      BlobPage(<<Blk(0, 0), Blk(2, 250), Blk(3, 250), Blk(0, 1)>>),
      ObjPage(OBJ_TYPE, 0, 0, <<>>),
      ObjPage(OBJ_TYPE, 0, 300, <<2>>)>>

\* The calls of get(): every block of the object and one past it as the start,
\* with no expected size and with expected sizes around the chains' sizes.
BlobStarts(o) == 0..(object_size(o) \div BLOB_BLK_SIZE)
BlobSizes == {0, 10, 20, 500, 520, 600}

InitBlob == Init /\ cache_size = MaxCacheSize

OpenBlobs ==
    /\ pages_open_call(FileOf(BlobPages))
    /\ file_data' = BlobPages
    /\ UNCHANGED <<seen, loads, obj, calls, rec, root, prog>>

BlobNew == Called /\ \E index_ \in {1, 3, 5, 7, 8} : blob_ctor(index_)

BlobGet ==
    /\ Called /\ obj.valid
    /\ \E index_ \in BlobStarts(obj), size_ \in BlobSizes : blob_get(index_, size_)

NextBlob == Construct \/ OpenBlobs \/ BlobNew \/ BlobGet

SpecBlob == InitBlob /\ [][NextBlob]_vars

\* ------------------------------------------------ db_1c_8x::records
WCHAR_SIZE   == 2           \* sizeof(wchar_t) of the platform the code is for
MIN_REC_SIZE == 5           \* 1 + sizeof(records::index_type)

\* field::fparams.
FParams(name_, type_, null_exists_, length_) ==
    [name |-> name_, type |-> type_, null_exists |-> null_exists_, length |-> length_]

FTypes == {"binary", "boolean", "digit", "str_fix", "str_var", "version",
           "str_blob", "bin_blob", "datetime"}

\* Slot widths with a digit slot of (length_ + 1) / 2 bytes.
field_size_digit_short(type_, length_) ==
    CASE type_ = "binary"   -> length_
      [] type_ = "boolean"  -> 1
      [] type_ = "digit"    -> (length_ + 1) \div 2
      [] type_ = "str_fix"  -> length_ * WCHAR_SIZE
      [] type_ = "str_var"  -> length_ * WCHAR_SIZE + 2
      [] type_ = "version"  -> 16
      [] type_ = "str_blob" -> 8
      [] type_ = "bin_blob" -> 8
      [] type_ = "datetime" -> 7

\* field::<type>::size(length_).
field_size(type_, length_) ==
    CASE type_ = "binary"   -> length_
      [] type_ = "boolean"  -> 1
      [] type_ = "digit"    -> (length_ + 2) \div 2
      [] type_ = "str_fix"  -> length_ * WCHAR_SIZE
      [] type_ = "str_var"  -> length_ * WCHAR_SIZE + 2
      [] type_ = "version"  -> 16
      [] type_ = "str_blob" -> 8
      [] type_ = "bin_blob" -> 8
      [] type_ = "datetime" -> 7

\* records::prepare_fields, the loop over params_ from field 'n' on.
RECURSIVE prepare_fields_loop(_, _, _, _)
prepare_fields_loop(params_, n, shift, fields) ==
    IF n > Len(params_)
    THEN [outcome |-> "ok", fields |-> fields, shift |-> shift]
    ELSE IF params_[n].type \notin FTypes
    THEN [outcome |-> "throw_field_type", fields |-> fields, shift |-> shift]
    ELSE LET size == (IF params_[n].null_exists THEN 1 ELSE 0)
                     + field_size(params_[n].type, params_[n].length)
         IN  prepare_fields_loop(params_, n + 1, shift + size,
                 Append(fields, [params |-> params_[n], shift |-> shift, size |-> size]))

\* records::prepare_fields(params_): [outcome, fields, shift], shift the size
\* of a record.
prepare_fields(params_) ==
    LET r == prepare_fields_loop(params_, 1, 1, <<>>)
    IN  IF r.outcome = "ok" /\ r.shift < MIN_REC_SIZE
        THEN [r EXCEPT !.shift = MIN_REC_SIZE]
        ELSE r

\* A size check that lets every object through.
records_size_bad_never(obj_size, rec_size) == FALSE

\* records::records, the check of the object size against the record size.
records_size_bad(obj_size, rec_size) ==
    \/ obj_size % rec_size # 0
    \/ obj_size \div rec_size > INDEX_MAX

\* vector::resize(n) of an empty buffer: n zero bytes, as a run.
ZeroRun(n) == <<<<-1, n>>>>

\* records::records(pages_, index_, params_).  The set of [s, outcome, obj, rec].
records_ctor_outcomes(s, index_, params_) ==
    {IF c.outcome # "ok"
     THEN [s |-> c.s, outcome |-> c.outcome, obj |-> NoObject, rec |-> NoRecords]
     ELSE LET f        == prepare_fields(params_)
              rec_size == f.shift
              obj_size == object_size(c.obj)
              rec_cnt  == obj_size \div rec_size
          IN  IF f.outcome # "ok"
              THEN [s |-> c.s, outcome |-> f.outcome, obj |-> NoObject,
                    rec |-> NoRecords]
              ELSE IF records_size_bad(obj_size, rec_size)
              THEN [s |-> c.s, outcome |-> "throw_records_size", obj |-> NoObject,
                    rec |-> NoRecords]
              ELSE [s |-> c.s, outcome |-> "ok", obj |-> c.obj,
                    rec |-> [valid |-> TRUE, fields |-> f.fields,
                             stride |-> rec_size,
                             record |-> ZeroRun(rec_size),
                             records_count |-> rec_cnt,
                             last_index |-> None]] :
     c \in object_ctor_outcomes(s, index_)}

\* The runs left of a buffer after its first n bytes.
RECURSIVE RunsDrop(_, _)
RunsDrop(runs, n) ==
    IF n = 0 \/ runs = <<>> THEN runs
    ELSE IF n >= Head(runs)[2] THEN RunsDrop(Tail(runs), n - Head(runs)[2])
    ELSE <<<<IF Head(runs)[1] = -1 THEN -1 ELSE Head(runs)[1] + n,
             Head(runs)[2] - n>>>> \o Tail(runs)

\* A read that leaves the buffer 'record' as it was.
record_after_kept(record, dst) == record

\* The buffer 'record' after the runs dst were copied to its start.
record_after(record, dst) ==
    LET n == RunsSize(dst)
    IN  IF n = 0 THEN record
        ELSE dst \o (IF record[1][1] = -1 /\ Len(record) = 1
                     THEN (IF record[1][2] > n THEN ZeroRun(record[1][2] - n) ELSE <<>>)
                     ELSE RunsDrop(record, n))

\* A seek that leaves last_index as it is while it reads.
seek_reset_kept(last_index) == last_index

\* records::seek, last_index.reset().
seek_reset(last_index) == None

\* A seek that forgets the record it has before it looks at index_.
records_seek_reset_first(s, r, o, index_) ==
    LET cleared == [r EXCEPT !.last_index = seek_reset(r.last_index)]
    IN  IF index_ >= r.records_count
        THEN {[s |-> s, outcome |-> "throw_record_index", rec |-> cleared,
               read |-> <<>>]}
        ELSE {[s       |-> d.s,
               outcome |-> d.outcome,
               rec     |-> [cleared EXCEPT
                               !.record = record_after(r.record, d.dst),
                               !.last_index = IF d.outcome = "ok" THEN Some(index_)
                                              ELSE cleared.last_index],
               read    |-> <<r.stride, r.stride * index_>>] :
              d \in object_read_outcomes(s, o.hdr, r.stride, r.stride * index_)}

\* records::seek(index_).  The set of [s, outcome, rec, read]: read is the
\* request <<count, pos>> made of the object, or <<>>.
records_seek_outcomes(s, r, o, index_) ==
    IF index_ >= r.records_count
    THEN {[s |-> s, outcome |-> "throw_record_index", rec |-> r, read |-> <<>>]}
    ELSE IF has_value(r.last_index) /\ value(r.last_index) = index_
    THEN {[s |-> s, outcome |-> "ok", rec |-> r, read |-> <<>>]}
    ELSE
    LET cleared == [r EXCEPT !.last_index = seek_reset(r.last_index)]
        count_  == r.stride
        pos_    == r.stride * index_
    IN  {[s       |-> d.s,
          outcome |-> d.outcome,
          rec     |-> [cleared EXCEPT
                          !.record = record_after(r.record, d.dst),
                          !.last_index = IF d.outcome = "ok" THEN Some(index_)
                                         ELSE cleared.last_index],
          read    |-> <<count_, pos_>>] :
         d \in object_read_outcomes(s, o.hdr, count_, pos_)}

\* records::records(pages_, index_, params_) as a step of the program.
records_ctor(index_, params_) ==
    /\ phase = "open"
    /\ \E c \in records_ctor_outcomes(PagesState, index_, params_) :
         /\ pages_becomes(c.s)
         /\ obj' = c.obj
         /\ rec' = c.rec
         /\ op' = [name |-> "records", index |-> index_, outcome |-> c.outcome]
    /\ UNCHANGED <<root, prog>>

\* records::seek(index_) as a step of the program.
records_seek(index_) ==
    /\ phase = "open" /\ rec.valid
    /\ \E c \in records_seek_outcomes(PagesState, rec, obj, index_) :
         /\ pages_becomes(c.s)
         /\ rec' = c.rec
         /\ op' = [name |-> "seek", index |-> index_, outcome |-> c.outcome,
                   read |-> c.read]
    /\ UNCHANGED <<obj, root, prog>>

\* -------------------------------------- specification of records::seek
\* A database of 4 KiB pages with tables.  Page 1: an object of 328 records of
\* 25 bytes in pages 2, 3, 4 (record 163 lies across pages 2 and 3).  Page 5:
\* an object of 110 bytes.  Page 6: an empty object.
\* Record 0: NAME = "AB", SHOW = 1.  Record 1: deleted, NAME = "X".
\* Record 163: first byte 2, NAME is null, SHOW = 1.  Record 327: NAME of a
\* length of 11, SHOW = 2.
RecordsPages ==
    <<ObjPage(OBJ_TYPE, 0, 328 * 25, <<2, 3, 4>>),
      RowsPage(1 :> 1 @@ 2 :> 2 @@ 4 :> 65 @@ 6 :> 66 @@ 24 :> 1 @@
               25 :> 1 @@ 26 :> 1 @@ 27 :> 1 @@ 29 :> 88 @@
               4075 :> 2),
      RowsPage(3 :> 1 @@ 4080 :> 1 @@ 4081 :> 11),
      RowsPage(7 :> 2),
      ObjPage(OBJ_TYPE, 0, 110, <<2>>),
      ObjPage(OBJ_TYPE, 0, 0, <<>>)>>

\* The columns of the tables: a nullable str_var(10) and a boolean (records of
\* 25 bytes), none (records of 5 bytes), and a column of no known type.
RecordsParams ==
    {<<FParams("NAME", "str_var", TRUE, 10), FParams("SHOW", "boolean", FALSE, 0)>>,
     <<>>,
     <<FParams("X", "unknown", FALSE, 0)>>}

\* The records seek() is asked for.
SeekIndexes(r) == {0, 1, 163, r.records_count - 1, r.records_count} \cap 0..INDEX_MAX

InitRecords == Init /\ cache_size = MaxCacheSize

OpenRecords ==
    /\ pages_open_call(FileOf(RecordsPages))
    /\ file_data' = RecordsPages
    /\ UNCHANGED <<seen, loads, obj, calls, rec, root, prog>>

RecordsNew ==
    Called /\ \E index_ \in {1, 5, 6}, params_ \in RecordsParams :
                 records_ctor(index_, params_)

RecordsSeek ==
    /\ Called /\ rec.valid
    /\ \E index_ \in SeekIndexes(rec) : records_seek(index_)

NextRecords == Construct \/ OpenRecords \/ RecordsNew \/ RecordsSeek

SpecRecords == InitRecords /\ [][NextRecords]_vars

\* ------------------------------- records::is_deleted, records::get_field
\* The byte the file holds at the offset 'at'.  The model gives values to the
\* bytes of the pages of table records only.
file_byte(at) ==
    LET i == at \div db_hdr.page_size
        n == at % db_hdr.page_size
    IN  IF i \in 1..Len(file_data) /\ file_data[i].kind = "rows"
           /\ n \in DOMAIN file_data[i].bytes
        THEN file_data[i].bytes[n]
        ELSE 0

\* record[k]: byte k of a buffer made of runs; the run of a resize() is zeros.
RECURSIVE buff_byte(_, _)
buff_byte(runs, k) ==
    IF k < Head(runs)[2]
    THEN (IF Head(runs)[1] < 0 THEN 0 ELSE file_byte(Head(runs)[1] + k))
    ELSE buff_byte(Tail(runs), k - Head(runs)[2])

\* A cursor that always counts as seeked.
seek_success_always(r) == TRUE

\* records::seek_success().
seek_success(r) == has_value(r.last_index)

\* A flag that takes every non-zero first byte for 'deleted'.
deleted_flag_nonzero(b) == b # 0

\* records::is_deleted, 'deleted == 1 ? true : false'.
deleted_flag(b) == b = 1

\* records::is_deleted().  [outcome, ret].
records_is_deleted(r) ==
    IF ~seek_success(r)
    THEN [outcome |-> "throw_no_record", ret |-> None]
    ELSE [outcome |-> "ok", ret |-> Some(deleted_flag(buff_byte(r.record, 0)))]

\* mem_get of a std::uint16_t at byte 'at' of the record (little-endian).
mem_get_u16(r, at) == buff_byte(r.record, at) + 256 * buff_byte(r.record, at + 1)

\* Tvalue_type(params_, buff_, size_) for the field types the model decodes:
\* boolean (a non-zero byte is true), str_var (a 16-bit length, then so many
\* wchar_t: a length above params.length throws) and the types that keep the
\* bytes of the slot as they are.  [outcome, exists].
field_decode(r, type_, params_, at, size_) ==
    CASE type_ = "boolean" ->
            [outcome |-> "ok", exists |-> Some(buff_byte(r.record, at) # 0)]
      [] type_ = "str_var" ->
            LET real_len == mem_get_u16(r, at)
            IN  IF real_len > params_.length
                THEN [outcome |-> "throw_string_length", exists |-> None]
                ELSE [outcome |-> "ok",
                      exists  |-> Some([n \in 1..real_len |->
                                           mem_get_u16(r, at + 2 * n)])]
      [] OTHER ->
            [outcome |-> "ok",
             exists  |-> Some([n \in 1..size_ |-> buff_byte(r.record, at + n - 1)])]

\* records::get_field, 'has_value == 0' of the presence byte at 'at'.
null_flag(r, at) == buff_byte(r.record, at) = 0

\* A get_field that gives the decoder the whole slot of a nullable column.
payload_whole_slot(hlp) == [at |-> hlp.shift, size |-> hlp.size]

\* records::get_field, the bytes handed to the decoder: the slot, without its
\* presence byte when the column is nullable.
payload(hlp) ==
    IF hlp.params.null_exists
    THEN [at |-> hlp.shift + 1, size |-> hlp.size - 1]
    ELSE [at |-> hlp.shift, size |-> hlp.size]

\* records::get_field<Tvalue_type>(index_).  The set of [outcome, exists, at,
\* size]: 'aborted' is assert(!is_deleted()) of a build that has assert,
\* 'throw_out_of_range' the std::out_of_range of fields.at(index_); at and size
\* are the bytes of the record the decoder was given (size 0: none).
records_get_field(r, type_, index_) ==
    IF ~seek_success(r)
    THEN {[outcome |-> "throw_no_record", exists |-> None, at |-> 0, size |-> 0]}
    ELSE
    UNION {
      IF aborted
      THEN {[outcome |-> "aborted", exists |-> None, at |-> 0, size |-> 0]}
      ELSE IF index_ >= Len(r.fields)
      THEN {[outcome |-> "throw_out_of_range", exists |-> None, at |-> 0, size |-> 0]}
      ELSE LET hlp == r.fields[index_ + 1]
               p   == payload(hlp)
               d   == field_decode(r, type_, hlp.params, p.at, p.size)
           IN  IF hlp.params.type # type_
               THEN {[outcome |-> "throw_field_mismatch", exists |-> None,
                      at |-> 0, size |-> 0]}
               ELSE IF hlp.params.null_exists /\ null_flag(r, hlp.shift)
               THEN {[outcome |-> "ok", exists |-> None, at |-> 0, size |-> 0]}
               ELSE {[outcome |-> d.outcome, exists |-> d.exists,
                      at |-> p.at, size |-> p.size]} :
      aborted \in assert_aborts(~value(records_is_deleted(r).ret))}

\* records::is_deleted() as a step of the program.
records_is_deleted_call ==
    /\ phase = "open" /\ rec.valid
    /\ op' = [name |-> "is_deleted", outcome |-> records_is_deleted(rec).outcome,
              ret |-> records_is_deleted(rec).ret]
    /\ UNCHANGED <<phase, cache_size, db_hdr, file_iface, cache_data, cache_pool,
                   cache_queue, seen, loads, file_data, obj, rec, root, prog>>

\* records::get_field<Tvalue_type>(index_) as a step of the program.
records_get_field_call(type_, index_) ==
    /\ phase = "open" /\ rec.valid
    /\ \E g \in records_get_field(rec, type_, index_) :
         /\ phase' = IF g.outcome = "aborted" THEN "aborted" ELSE phase
         /\ op' = [name |-> "get_field", type |-> type_, index |-> index_,
                   outcome |-> g.outcome, exists |-> g.exists,
                   at |-> g.at, size |-> g.size]
    /\ UNCHANGED <<cache_size, db_hdr, file_iface, cache_data, cache_pool,
                   cache_queue, seen, loads, file_data, obj, rec, root, prog>>

\* ------------------------ specification of is_deleted() and get_field()
\* The types get_field is asked for, and the fields: every column of the
\* table and one past them.
FieldTypes == {"str_var", "boolean", "digit"}
FieldIndexes(r) == 0..Len(r.fields)

IsDeleted == records_is_deleted_call /\ UNCHANGED calls

GetField ==
    /\ rec.valid
    /\ \E type_ \in FieldTypes, index_ \in FieldIndexes(rec) :
          records_get_field_call(type_, index_)
    /\ UNCHANGED calls

NextFields ==
    Construct \/ OpenRecords \/ RecordsNew \/ RecordsSeek \/ IsDeleted \/ GetField

SpecFields == InitRecords /\ [][NextFields]_vars

\* ------------------------------------------------------ db_1c_83::root
ROOT_INDEX    == 2          \* the page of the root object
ROOT_HDR_SIZE == 36         \* sizeof(root_hdr): lang[32] and numtables
ROOT_NUM_AT   == 32         \* offsetof(root_hdr, numtables)

\* A page of BLOB blocks of the root object: words_ maps offsets of the page
\* to the 32-bit numbers there (the others are 0), descrs_ maps the offset of
\* the data of a block to the table whose description starts there.
RootPage(blocks_, words_, descrs_) ==
    [kind |-> "blob", blocks |-> blocks_, words |-> words_, descrs |-> descrs_]

\* The 32-bit number the file holds at the offset 'at'.
file_word(at) ==
    LET i == at \div db_hdr.page_size
        n == at % db_hdr.page_size
    IN  IF i \in 1..Len(file_data) /\ "words" \in DOMAIN file_data[i]
           /\ n \in DOMAIN file_data[i].words
        THEN file_data[i].words[n]
        ELSE 0

\* The file offset of byte k of a buffer made of runs.
RECURSIVE buff_offset(_, _)
buff_offset(runs, k) ==
    IF k < Head(runs)[2] THEN Head(runs)[1] + k
    ELSE buff_offset(Tail(runs), k - Head(runs)[2])

\* hdr->numtables and hdr->tables[num_] of the buffer hdr_data.  (The model
\* keeps every number it reads inside one block of the BLOB.)
root_numtables(hdr_data) == file_word(buff_offset(hdr_data, ROOT_NUM_AT))
root_tables(hdr_data, num_) ==
    file_word(buff_offset(hdr_data, ROOT_HDR_SIZE + INDEX_SIZE * num_))

\* A header check that does not compare the count of tables.
root_hdr_bad_no_count(hdr_data) == RunsSize(hdr_data) < ROOT_HDR_SIZE

\* root::root, the check of the header: blob_size and tables_count are
\* std::size_t, so the subtraction wraps for a blob_size below 36.
root_hdr_bad(hdr_data) ==
    LET blob_size    == RunsSize(hdr_data)
        tables_count == ((blob_size - ROOT_HDR_SIZE) % SIZE_MOD) \div INDEX_SIZE
    IN  \/ blob_size < ROOT_HDR_SIZE
        \/ tables_count # root_numtables(hdr_data)

\* root::root(pages_).  The set of [s, outcome, obj, root]: obj is the object
\* of blob_iface.
root_ctor_outcomes(s) ==
    UNION {
      IF b.outcome # "ok"
      THEN {[s |-> b.s, outcome |-> b.outcome, obj |-> NoObject, root |-> NoRoot]}
      ELSE {IF g.outcome # "ok"
            THEN [s |-> g.s, outcome |-> g.outcome, obj |-> NoObject, root |-> NoRoot]
            ELSE IF root_hdr_bad(g.result)
            THEN [s |-> g.s, outcome |-> "throw_root", obj |-> NoObject,
                  root |-> NoRoot]
            ELSE [s |-> g.s, outcome |-> "ok", obj |-> b.obj,
                  root |-> [valid |-> TRUE, hdr_data |-> g.result]] :
            g \in blob_get_outcomes(b.s, b.obj, 1, 0)} :
      b \in blob_ctor_outcomes(s, ROOT_INDEX)}

\* root::size().
root_size(rt) == root_numtables(rt.hdr_data)

\* root::read(num_).  The set of [s, outcome, at, index, result]: at is the
\* offset in hdr_data the index of the description was taken from (-1: none
\* was taken), result the bytes of the description.
root_read_outcomes(s, rt, o, num_) ==
    IF num_ >= root_size(rt)
    THEN {[s |-> s, outcome |-> "throw_root_index", at |-> -1, index |-> 0,
           result |-> <<>>]}
    ELSE LET index == root_tables(rt.hdr_data, num_)
         IN  {[s |-> g.s, outcome |-> g.outcome,
               at |-> ROOT_HDR_SIZE + INDEX_SIZE * num_, index |-> index,
               result |-> IF g.outcome = "ok" THEN g.result ELSE <<>>] :
              g \in blob_get_outcomes(s, o, index, 0)}

\* root::root(pages_) as a step of the program.
root_ctor ==
    /\ phase = "open"
    /\ \E c \in root_ctor_outcomes(PagesState) :
         /\ pages_becomes(c.s)
         /\ obj' = c.obj
         /\ root' = c.root
         /\ op' = [name |-> "root", outcome |-> c.outcome]
    /\ UNCHANGED <<rec, prog>>

\* root::read(num_) as a step of the program.
root_read(num_) ==
    /\ phase = "open" /\ root.valid
    /\ \E c \in root_read_outcomes(PagesState, root, obj, num_) :
         /\ pages_becomes(c.s)
         /\ op' = [name |-> "root_read", num |-> num_, outcome |-> c.outcome,
                   at |-> c.at, index |-> c.index, result |-> c.result]
    /\ UNCHANGED <<obj, rec, root, prog>>

\* ------------------------------------------- specification of the root
\* The offsets, in the page of the root BLOB, of the data of block n, of
\* numtables and of tables[k] of a header that starts in block 1.
BlkData(n)  == BLOB_BLK_SIZE * n + BLOB_DATA_AT
NumAt       == BlkData(1) + ROOT_NUM_AT
TableAt(k)  == BlkData(1) + ROOT_HDR_SIZE + INDEX_SIZE * k

\* A database whose root object (page 2) has four blocks in page 3: block 1
\* the header, of hdr_len bytes, and blocks 2 and 3 descriptions of tables.
RootFile(hdr_len, words_) ==
    <<DataPage,
      ObjPage(OBJ_TYPE, 0, 4 * BLOB_BLK_SIZE, <<3>>),
      RootPage(<<Blk(0, 0), Blk(0, hdr_len), Blk(0, 100), Blk(0, 120)>>,
               words_, <<>>)>>

\* The databases: headers of 2 tables in 44 and in 46 bytes, of no table, of
\* 35 bytes, of 3 tables in 44 bytes, of 1 table in 44 bytes, of 2 tables with
\* a description at block 0 and one past the object, an empty header, and a
\* page 2 that is no object.
RootFiles ==
    {RootFile(44, NumAt :> 2 @@ TableAt(0) :> 2 @@ TableAt(1) :> 3),
     RootFile(46, NumAt :> 2 @@ TableAt(0) :> 3 @@ TableAt(1) :> 2),
     RootFile(36, NumAt :> 0),
     RootFile(35, NumAt :> 0),
     RootFile(44, NumAt :> 3 @@ TableAt(0) :> 2 @@ TableAt(1) :> 3 @@ TableAt(2) :> 2),
     RootFile(44, NumAt :> 1 @@ TableAt(0) :> 2 @@ TableAt(1) :> 3),
     RootFile(44, NumAt :> 2 @@ TableAt(0) :> 0 @@ TableAt(1) :> 4),
     RootFile(0, NumAt :> 0),
     <<DataPage, DataPage, DataPage>>}

InitRoot == Init /\ cache_size = MaxCacheSize

OpenRoots ==
    /\ \E pages_ \in RootFiles :
          /\ pages_open_call(FileOf(pages_))
          /\ file_data' = pages_
    /\ UNCHANGED <<seen, loads, obj, calls, rec, root, prog>>

RootNew == Called /\ root_ctor

RootRead ==
    /\ Called /\ root.valid
    /\ \E num_ \in 0..(root_size(root) + 1) : root_read(num_)

NextRoot == Construct \/ OpenRoots \/ RootNew \/ RootRead

SpecRoot == InitRoot /\ [][NextRoot]_vars

\* ------------------------------------------ examples/users_list (wmain)
USERS_CACHE == 8            \* pages pages(8)

\* A description of a table as root::parse_params returns it.
TableParams(name_, columns_, i_records_) ==
    [name |-> name_, columns |-> columns_, i_records |-> i_records_]

\* root::parse_params(descr_) of the description whose bytes are the runs
\* descr_.  The model does not hold the text of a description: the file says,
\* for the block a description starts in, the params that parsing its text
\* gives, and a block that holds no description does not parse.
parse_params(descr_) ==
    LET at == IF descr_ = <<>> THEN 0 ELSE descr_[1][1]
        i  == at \div db_hdr.page_size
        n  == at % db_hdr.page_size
    IN  IF i \in 1..Len(file_data) /\ "descrs" \in DOMAIN file_data[i]
           /\ n \in DOMAIN file_data[i].descrs
        THEN [outcome |-> "ok", params |-> file_data[i].descrs[n]]
        ELSE [outcome |-> "throw_descr", params |-> TableParams("", <<>>, 0)]

\* find_table, the loop over the tables of the root from table i on.
RECURSIVE find_table_loop(_, _, _, _, _)
find_table_loop(s, rt, o, name_, i) ==
    IF i >= root_size(rt)
    THEN {[s |-> s, outcome |-> "ok", params |-> None]}
    ELSE UNION {
           IF r.outcome # "ok"
           THEN {[s |-> r.s, outcome |-> r.outcome, params |-> None]}
           ELSE LET p == parse_params(r.result)
                IN  IF p.outcome # "ok"
                    THEN {[s |-> r.s, outcome |-> p.outcome, params |-> None]}
                    ELSE IF p.params.name = name_
                    THEN {[s |-> r.s, outcome |-> "ok", params |-> Some(p.params)]}
                    ELSE find_table_loop(r.s, rt, o, name_, i + 1) :
           r \in root_read_outcomes(s, rt, o, i)}

\* find_table(pages_, name_).  The set of [s, outcome, params].
find_table(s, name_) ==
    UNION {IF c.outcome # "ok"
           THEN {[s |-> c.s, outcome |-> c.outcome, params |-> None]}
           ELSE find_table_loop(c.s, c.root, c.obj, name_, 0) :
           c \in root_ctor_outcomes(s)}

\* records::field_index(name_): indexes[prm.name] keeps the last field of a name.
field_index(r, name_) ==
    LET named == {n \in 1..Len(r.fields) : r.fields[n].params.name = name_}
    IN  IF named = {} THEN [outcome |-> "throw_field_name", index |-> 0]
        ELSE [outcome |-> "ok",
              index   |-> (CHOOSE n \in named : \A m \in named : m <= n) - 1]

\* The program at a position, and after its return.
Running(pc_, params_, i_, out_) ==
    [pc |-> pc_, params |-> params_, i |-> i_, out |-> out_, ret |-> 0,
     err |-> "none"]
Returned(p, out_, ret_, err_) ==
    [pc |-> "done", params |-> p.params, i |-> p.i, out |-> out_, ret |-> ret_,
     err |-> err_]

\* A body of the loop that prints a row without asking whether it is deleted.
row_skipped_never(r) == FALSE

\* wmain, 'if (!records.is_deleted())' of a row that was read.
row_skipped(r) == value(records_is_deleted(r).ret)

\* wmain, the body of the loop for a row that is not deleted, r the cursor at
\* the row: [outcome, out], out what wcout has been sent.  The operands of <<
\* are evaluated from left to right, so a NAME without a value leaves the mark
\* of SHOW on the line and no end of line.
users_print(r, out) ==
    LET ni == field_index(r, "NAME")
        si == field_index(r, "SHOW")
    IN  IF ni.outcome # "ok" THEN {[outcome |-> ni.outcome, out |-> out]}
        ELSE UNION {
          IF fn.outcome # "ok" THEN {[outcome |-> fn.outcome, out |-> out]}
          ELSE IF si.outcome # "ok" THEN {[outcome |-> si.outcome, out |-> out]}
          ELSE UNION {
            IF fs.outcome # "ok" THEN {[outcome |-> fs.outcome, out |-> out]}
            ELSE IF ~has_value(fs.exists)
            THEN {[outcome |-> "throw_bad_optional", out |-> out]}
            ELSE IF ~has_value(fn.exists)
            THEN {[outcome |-> "throw_bad_optional",
                   out |-> Append(out, [show |-> value(fs.exists)])]}
            ELSE {[outcome |-> "ok",
                   out |-> Append(out, [show |-> value(fs.exists),
                                        name |-> value(fn.exists)])]} :
            fs \in records_get_field(r, "boolean", si.index)} :
          fn \in records_get_field(r, "str_var", ni.index)}

\* wmain: pages.open(argv[1]) of the file 'pages_', after 'pages pages(8)'.
main_open(pages_, io) ==
    /\ prog = NoProgram
    /\ pages_open_call(io)
    /\ file_data' = pages_
    /\ prog' = IF op'.code = "none"
               THEN Running("find", None, 0, <<>>)
               ELSE Returned(Running("open", None, 0, <<>>), <<>>, -1, op'.code)
    /\ UNCHANGED <<seen, loads, obj, calls, rec, root>>

\* wmain: find_table(pages, L"V8USERS") and the test of what it returns.
main_find ==
    /\ phase = "open" /\ prog.pc = "find"
    /\ \E f \in find_table(PagesState, "V8USERS") :
         /\ pages_becomes(f.s)
         /\ op' = [name |-> "find_table", outcome |-> f.outcome]
         /\ prog' = IF f.outcome # "ok" THEN Returned(prog, prog.out, -1, f.outcome)
                    ELSE IF ~has_value(f.params)
                    THEN Returned(prog, prog.out, -1, "not_found")
                    ELSE Running("records", f.params, 0, prog.out)
    /\ UNCHANGED <<obj, calls, rec, root>>

\* wmain: records records(pages, params->i_records, params->columns).
main_records ==
    /\ phase = "open" /\ prog.pc = "records"
    /\ \E c \in records_ctor_outcomes(PagesState, value(prog.params).i_records,
                                      value(prog.params).columns) :
         /\ pages_becomes(c.s)
         /\ obj' = c.obj
         /\ rec' = c.rec
         /\ op' = [name |-> "records", index |-> value(prog.params).i_records,
                   outcome |-> c.outcome]
         /\ prog' = IF c.outcome # "ok" THEN Returned(prog, prog.out, -1, c.outcome)
                    ELSE Running("loop", prog.params, 0, prog.out)
    /\ UNCHANGED <<calls, root>>

\* wmain: the test of the for loop and one turn of it, or the return after it.
main_loop ==
    /\ phase = "open" /\ prog.pc = "loop"
    /\ IF prog.i >= rec.records_count
       THEN /\ prog' = Returned(prog, prog.out, 0, "none")
            /\ op' = [name |-> "return"]
            /\ UNCHANGED <<phase, cache_size, db_hdr, file_iface, cache_data,
                           cache_pool, cache_queue, seen, loads, file_data, rec>>
       ELSE \E c \in records_seek_outcomes(PagesState, rec, obj, prog.i) :
              /\ pages_becomes(c.s)
              /\ rec' = c.rec
              /\ op' = [name |-> "seek", index |-> prog.i, outcome |-> c.outcome,
                        read |-> c.read]
              /\ IF c.outcome # "ok"
                 THEN prog' = Returned(prog, prog.out, -1, c.outcome)
                 ELSE IF row_skipped(c.rec)
                 THEN prog' = Running("loop", prog.params, prog.i + 1, prog.out)
                 ELSE \E p \in users_print(c.rec, prog.out) :
                        prog' = IF p.outcome # "ok"
                                THEN Returned(prog, p.out, -1, p.outcome)
                                ELSE Running("loop", prog.params, prog.i + 1, p.out)
    /\ UNCHANGED <<obj, calls, root>>

\* -------------------------------- specification of the sample program
\* The columns of V8USERS and of another table.
UsersColumns ==
    <<FParams("NAME", "str_var", TRUE, 10), FParams("SHOW", "boolean", FALSE, 0)>>
OtherColumns == <<FParams("ID", "binary", FALSE, 16)>>

\* The rows of the table: deleted (with a name), without a NAME, and with the
\* NAME "A" and SHOW or no SHOW.
RowKinds == {"deleted", "null", "shown", "hidden"}

\* The bytes of row i of the kind k, at their offsets in the page of rows.
RowBytes(i, k) ==
    LET at == 25 * i
    IN  CASE k = "deleted" -> (at :> 1 @@ (at + 1) :> 1 @@ (at + 2) :> 1 @@
                               (at + 4) :> 68 @@ (at + 24) :> 1)
          [] k = "null"    -> ((at + 24) :> 1)
          [] k = "shown"   -> ((at + 1) :> 1 @@ (at + 2) :> 1 @@
                               (at + 4) :> (65 + i) @@ (at + 24) :> 1)
          [] k = "hidden"  -> ((at + 1) :> 1 @@ (at + 2) :> 1 @@ (at + 4) :> (65 + i))

RECURSIVE RowsBytes(_, _)
RowsBytes(kinds, i) ==
    IF i >= Len(kinds) THEN <<>>
    ELSE RowBytes(i, kinds[i + 1]) @@ RowsBytes(kinds, i + 1)

\* The most rows a table of the model has.
MaxRows == 3

\* A database with the tables CONFIG and, when 'users' says so, V8USERS, whose
\* rows are of the kinds given.  Page 2: the root object, page 3: its BLOB, the
\* header in block 1 and the descriptions in blocks 2 and 3.  Page 4: the
\* object of the rows of V8USERS, page 5: the rows.  Page 6: the object of the
\* rows of CONFIG.
UsersFile(kinds, users) ==
    <<DataPage,
      ObjPage(OBJ_TYPE, 0, 4 * BLOB_BLK_SIZE, <<3>>),
      RootPage(<<Blk(0, 0), Blk(0, 44), Blk(0, 100), Blk(0, 120)>>,
               NumAt :> (IF users THEN 2 ELSE 1) @@ TableAt(0) :> 2 @@ TableAt(1) :> 3,
               BlkData(2) :> TableParams("CONFIG", OtherColumns, 6) @@
               BlkData(3) :> TableParams("V8USERS", UsersColumns, 4)),
      ObjPage(OBJ_TYPE, 0, 25 * Len(kinds), <<5>>),
      RowsPage(RowsBytes(kinds, 0)),
      ObjPage(OBJ_TYPE, 0, 0, <<>>)>>

RowSeqs == UNION {[1..n -> RowKinds] : n \in 0..MaxRows}

UsersFiles == {UsersFile(kinds, TRUE) : kinds \in RowSeqs} \cup {UsersFile(<<>>, FALSE)}

InitUsers == cache_size = USERS_CACHE /\ InitRest

MainOpen == \E pages_ \in UsersFiles : main_open(pages_, FileOf(pages_))

NextUsers == Construct \/ MainOpen \/ main_find \/ main_records \/ main_loop

SpecUsers == InitUsers /\ [][NextUsers]_vars

\* ------------------------------------------ blob_base::decompress
\* What zlib is given: a raw DEFLATE stream of Len(yield) bytes, of which byte
\* c lets yield[c] more bytes of output be decoded.  A "complete" stream ends
\* with its last byte, a "truncated" one goes on past it, and the last byte
\* of a "corrupt" one is not DEFLATE.
Stream(yield_, kind_) == [yield |-> yield_, kind |-> kind_]

\* The output that the first c bytes of the stream decode to.
RECURSIVE stream_out(_, _)
stream_out(st, c) == IF c = 0 THEN 0 ELSE st.yield[c] + stream_out(st, c - 1)

\* inflate(&strm, Z_NO_FLUSH) with total_in bytes taken and total_out bytes
\* given so far and room for avail_out bytes: zlib decodes on, taking input as
\* it goes, until it has a byte of output that finds no room or the input
\* is used up; it returns Z_STREAM_END when it has given the last byte of
\* output of a complete stream and taken its last byte, Z_OK after progress,
\* Z_DATA_ERROR at the byte that is not DEFLATE, and Z_BUF_ERROR when it
\* could do nothing.
inflate(st, total_in, total_out, avail_out) ==
    LET n      == Len(st.yield)
        room   == total_out + avail_out
        enough == {c \in total_in..n : stream_out(st, c) > room}
        taken  == IF enough = {} THEN n
                  ELSE CHOOSE c \in enough : \A d \in enough : c <= d
        given  == Min(room, stream_out(st, taken))
        res    == IF st.kind = "corrupt" /\ taken = n /\ total_in < n
                  THEN "Z_DATA_ERROR"
                  ELSE IF st.kind = "complete" /\ taken = n
                          /\ given = stream_out(st, n)
                  THEN "Z_STREAM_END"
                  ELSE IF taken > total_in \/ given > total_out
                  THEN "Z_OK"
                  ELSE "Z_BUF_ERROR"
    IN  [res |-> res, total_in |-> taken, total_out |-> given]

\* 'if (max_size_ > numeric_limits<uInt>::max()) max_size_ = ...'.
inflate_limit(max_size_) == Min(max_size_, INDEX_MAX)

\* A buffer that is always doubled.
inflate_grow_double(size, max_size_) == size * 2

\* decompress, the growth of dst: to max_size_ when the room left is less than
\* the size, else to twice the size.
inflate_grow(size, max_size_) ==
    LET max_increment == max_size_ - size
    IN  IF max_increment < size THEN size + max_increment ELSE size * 2

\* decompress, the do-while loop.  sizes: the sizes dst has had.
RECURSIVE decompress_loop(_, _, _, _, _)
decompress_loop(st, max_size_, total_in, total_out, sizes) ==
    LET size == sizes[Len(sizes)]
        z    == inflate(st, total_in, total_out, size - total_out)
        out(outcome_, ret_, sizes_) ==
            [outcome |-> outcome_, ret |-> ret_, sizes |-> sizes_]
    IN  IF z.res = "Z_STREAM_END" THEN out("ok", z.total_out, sizes)
        ELSE IF z.res # "Z_OK" THEN out("throw_zlib", 0, sizes)
        ELSE IF size >= max_size_ THEN out("throw_inflate_size", 0, sizes)
        ELSE LET grown == Append(sizes, inflate_grow(size, max_size_))
             IN  IF Len(st.yield) - z.total_in # 0
                 THEN decompress_loop(st, max_size_, z.total_in, z.total_out, grown)
                 ELSE out("throw_inflate_ended", 0, grown)

\* blob_base::decompress(src_, max_size_), src_ the bytes of the stream st;
\* init_ok: inflateInit2 returned Z_OK.  [outcome, ret, sizes]: ret is the
\* size of the buffer returned.
decompress(st, max_size_, init_ok) ==
    IF Len(st.yield) = 0 THEN [outcome |-> "ok", ret |-> 0, sizes |-> <<>>]
    ELSE IF Len(st.yield) > inflate_limit(max_size_)
    THEN [outcome |-> "throw_deflate_size", ret |-> 0, sizes |-> <<>>]
    ELSE IF ~init_ok
    THEN [outcome |-> "throw_zlib", ret |-> 0, sizes |-> <<Len(st.yield)>>]
    ELSE decompress_loop(st, inflate_limit(max_size_), 0, 0, <<Len(st.yield)>>)

\* blob_base::decompress as a step of the program: a static function, called
\* once.
decompress_call(st, max_size_, init_ok) ==
    /\ op.name = "none"
    /\ LET d == decompress(st, max_size_, init_ok)
       IN  op' = [name |-> "decompress", src |-> st, max_size |-> max_size_,
                  init_ok |-> init_ok, outcome |-> d.outcome, ret |-> d.ret,
                  sizes |-> d.sizes]
    /\ UNCHANGED <<phase, cache_size, db_hdr, file_iface, cache_data, cache_pool,
                   cache_queue, seen, loads, layers>>

\* --------------------------------- specification of decompress
\* The most bytes a stream of the model has.
MaxInput == 3

\* The streams: of up to MaxInput bytes, each byte good for 0, 1, 3 or 8
\* bytes of output.
Yields  == UNION {[1..n -> {0, 1, 3, 8}] : n \in 0..MaxInput}
Streams == {Stream(y, k) : y \in Yields, k \in {"complete", "truncated", "corrupt"}}

\* The limits on the output: small ones, and the default.
MaxSizes == {0, 1, 2, 3, 5, 8, 12, 16, INDEX_MAX}

InitInflate == cache_size = MaxCacheSize /\ InitRest

Decompress ==
    \E st \in Streams, max_size_ \in MaxSizes, init_ok \in BOOLEAN :
        decompress_call(st, max_size_, init_ok)

NextInflate == Decompress

SpecInflate == InitInflate /\ [][NextInflate]_vars

\* ------------------------- specification of the placement of objects
\* A database of 7 pages of 4 KiB whose objects name pages that are not
\* theirs to name.  Page 1: an object of three pages, the second at page 0
\* and the third at page 9.  Page 2: an object of three pages placed by the
\* table of page 3, which has the second at page 0 and the third at page 7.
\* Page 5: an object whose placement table is page 0, page 6: one whose
\* placement table is page 8.
PlacedPages ==
    <<ObjPage(OBJ_TYPE, 0, 3 * 4096, <<4, 0, 9>>),
      ObjPage(OBJ_TYPE, 1, 3 * 4096, <<3>>),
      PmtPage(<<4, 0, 7>>),
      DataPage,
      ObjPage(OBJ_TYPE, 1, 4096, <<0>>),
      ObjPage(OBJ_TYPE, 1, 4096, <<8>>)>>

\* The requests read() is tried with: each page of an object, the last byte
\* of a page with or without the first of the next, and pages together.
PlacedReads ==
    {<<4096, 0>>, <<4096, 4096>>, <<4096, 8192>>, <<1, 4095>>, <<2, 4095>>,
     <<1, 8191>>, <<2, 8191>>, <<8192, 0>>, <<12288, 0>>}

InitPlaced == Init /\ cache_size = MaxCacheSize

OpenPlaced ==
    /\ pages_open_call(FileOf(PlacedPages))
    /\ file_data' = PlacedPages
    /\ UNCHANGED <<seen, loads, obj, calls, rec, root, prog>>

PlacedNew == Called /\ \E index_ \in 0..(Len(file_data) + 2) : object_ctor(index_)

PlacedRead ==
    /\ Called /\ obj.valid
    /\ \E a \in PlacedReads : object_read(a[1], a[2])

NextPlaced == Construct \/ OpenPlaced \/ PlacedNew \/ PlacedRead

SpecPlaced == InitPlaced /\ [][NextPlaced]_vars

\* ------------------------------------- specification of cache::fifo
\* A fifo of 1..MaxCacheSize entries used on its own.  The caller pushes a new
\* key each time, the number of the push, so that the age of an entry can be
\* read from its key; it looks for any key, stored or not.
InitFifo ==
    /\ cache_size \in 1..MaxCacheSize
    /\ InitRest

FifoNew ==
    /\ phase = "start"
    /\ phase' = "fifo"
    /\ cache_queue' = fifo_ctor(cache_size)
    /\ op' = [name |-> "fifo"]
    /\ UNCHANGED <<cache_size, db_hdr, file_iface, cache_data, cache_pool,
                   seen, loads, layers>>

FifoFind ==
    /\ phase = "fifo"
    /\ \E index_ \in 1..(MaxLoads + 1) :
         op' = [name |-> "fifo_find", index |-> index_,
                result |-> fifo_find(cache_queue, index_)]
    /\ UNCHANGED <<phase, cache_size, db_hdr, file_iface, cache_data, cache_pool,
                   cache_queue, seen, loads, layers>>

FifoPush ==
    /\ phase = "fifo" /\ loads < MaxLoads
    /\ \E v \in TwoQValues :
         LET r == fifo_push(cache_queue, <<loads + 1, v>>)
         IN  /\ phase' = IF r.fault THEN "aborted" ELSE phase
             /\ cache_queue' = r.q
             /\ op' = [name |-> "fifo_push", index |-> loads + 1, result |-> r.result]
    /\ loads' = loads + 1
    /\ UNCHANGED <<cache_size, db_hdr, file_iface, cache_data, cache_pool,
                   seen, layers>>

NextFifo == FifoNew \/ FifoFind \/ FifoPush

SpecFifo == InitFifo /\ [][NextFifo]_vars

\* -------------------------------------- specification of cache::lru
\* An lru of 1..MaxCacheSize entries used on its own, by a caller that looks
\* for any key and pushes the keys that are not stored.  prog.used is the
\* caller's log: the keys it has pushed or found, the latest use of each, in
\* the order of these uses.
LruKeys == 1..MaxCacheSize

\* The log after a use of the key k.
Used(used, k) == Append(SelectSeq(used, LAMBDA j : j # k), k)

InitLru ==
    /\ cache_size \in 1..MaxCacheSize
    /\ InitRest

LruNew ==
    /\ phase = "start"
    /\ phase' = "lru"
    /\ cache_queue' = lru_ctor(cache_size)
    /\ op' = [name |-> "lru"]
    /\ prog' = [pc |-> "lru", used |-> <<>>]
    /\ UNCHANGED <<cache_size, db_hdr, file_iface, cache_data, cache_pool,
                   seen, loads, file_data, obj, calls, rec, root>>

LruFind ==
    /\ phase = "lru"
    /\ \E index_ \in LruKeys :
         LET r == lru_find(cache_queue, index_)
         IN  /\ cache_queue' = r.q
             /\ op' = [name |-> "lru_find", index |-> index_, result |-> r.result]
             /\ prog' = IF has_value(r.result)
                        THEN [prog EXCEPT !.used = Used(@, index_)]
                        ELSE prog
    /\ UNCHANGED <<phase, cache_size, db_hdr, file_iface, cache_data, cache_pool,
                   seen, loads, file_data, obj, calls, rec, root>>

LruPush ==
    /\ phase = "lru"
    /\ \E index_ \in LruKeys, v \in TwoQValues :
         /\ ~has_value(lru_find(cache_queue, index_).result)
         /\ LET r == lru_push(cache_queue, <<index_, v>>)
            IN  /\ phase' = IF r.fault THEN "aborted" ELSE phase
                /\ cache_queue' = r.q
                /\ op' = [name |-> "lru_push", index |-> index_, result |-> r.result]
                /\ prog' = [prog EXCEPT !.used = Used(@, index_)]
    /\ UNCHANGED <<cache_size, db_hdr, file_iface, cache_data, cache_pool,
                   seen, loads, file_data, obj, calls, rec, root>>

NextLru == LruNew \/ LruFind \/ LruPush

SpecLru == InitLru /\ [][NextLru]_vars

\* ----------------------------- specification of records::prepare_fields
\* prepare_fields applied to the schemas of up to MaxColumns columns of every
\* type, the type 'unknown' included, nullable or not, of a few lengths.
MaxColumns == 2

SchemaLengths == {0, 1, 2, 5}

SchemaColumns ==
    {FParams("F", t, ne, len) :
        t \in FTypes \cup {"unknown"}, ne \in BOOLEAN, len \in SchemaLengths}

RECURSIVE SchemasOf(_)
SchemasOf(n) ==
    IF n = 0 THEN {<<>>}
    ELSE LET shorter == SchemasOf(n - 1)
         IN  shorter \cup {Append(p, c) : p \in {q \in shorter : Len(q) = n - 1},
                                         c \in SchemaColumns}

Schemas == SchemasOf(MaxColumns)

InitStride == Init /\ cache_size = MaxCacheSize

PrepareFields ==
    /\ op.name = "none"
    /\ \E params_ \in Schemas :
         LET r == prepare_fields(params_)
         IN  op' = [name |-> "prepare_fields", params |-> params_,
                    outcome |-> r.outcome, fields |-> r.fields, shift |-> r.shift]
    /\ UNCHANGED <<phase, cache_size, db_hdr, file_iface, cache_data, cache_pool,
                   cache_queue, seen, loads, layers>>

NextStride == PrepareFields

SpecStride == InitStride /\ [][NextStride]_vars

\* ------------------------- specification of the lookup of object pages
\* object::read, lines 131-134: the lookup of the page index of page number
\* page_num_ of the object in use, by the header or by the placement tables.
\* The set of [s, outcome, index].
object_page_index(s, hdr, page_num_) ==
    IF hdr.pmt_type = 1
    THEN page_num_to_index(s, hdr, page_num_)
    ELSE page_num_to_index_lite(s, hdr, page_num_)

\* The lookup as a step of the program.
object_lookup(page_num_) ==
    /\ phase = "open" /\ obj.valid
    /\ \E o \in object_page_index(PagesState, obj.hdr, page_num_) :
         /\ pages_becomes(o.s)
         /\ op' = [name |-> "page_num_to_index", page_num |-> page_num_,
                   outcome |-> o.outcome, index |-> o.index]
    /\ UNCHANGED <<obj, rec, root, prog>>

\* A database of pages of page_size_ bytes with full placement arrays: as many
\* entries of 4 bytes as fit in a page, after the 24 bytes of obj_hdr in a
\* header.  Page 1: an object placed by its header, entry n of which is
\* 1001 + n.  Page 2: an object placed by tables: its entry 0 names page 3,
\* its entry 1 and its last entry page 4, its other entries page 0.  Pages 3
\* and 4: placement tables, whose entries n are 5001 + n and 7001 + n.
LookupPagesOf(page_size_) ==
    LET in_hdr == (page_size_ - 24) \div 4
        in_pmt == page_size_ \div 4
    IN  <<ObjPage(OBJ_TYPE, 0, page_size_, [k \in 1..in_hdr |-> 1000 + k]),
          ObjPage(OBJ_TYPE, 1, page_size_,
                  [k \in 1..in_hdr |-> IF k = 1 THEN 3
                                       ELSE IF k \in {2, in_hdr} THEN 4 ELSE 0]),
          PmtPage([k \in 1..in_pmt |-> 5000 + k]),
          PmtPage([k \in 1..in_pmt |-> 7000 + k])>>

LookupFile(page_size_) ==
    OpenIo(Disk(SIG_OK, VERSION_8_3_8, 5, page_size_), 5 * page_size_,
           TRUE, TRUE, GoodIo)

\* The page numbers looked up: around the first entries, the last entry of
\* the header, the ends of the first tables and of the last table.
LookupNums(page_size_) ==
    LET in_hdr == (page_size_ - 24) \div 4
        in_pmt == page_size_ \div 4
    IN  {0, 1, in_hdr - 1, in_hdr, in_hdr + 1, in_pmt - 1, in_pmt, in_pmt + 1,
         2 * in_pmt - 1, 2 * in_pmt, (in_hdr - 1) * in_pmt,
         in_hdr * in_pmt - 1, in_hdr * in_pmt, in_hdr * in_pmt + 1,
         in_pmt * in_pmt}

InitLookup == Init /\ cache_size = MaxCacheSize

OpenLookup ==
    /\ \E page_size_ \in {4096, 8192} :
         /\ pages_open_call(LookupFile(page_size_))
         /\ file_data' = LookupPagesOf(page_size_)
    /\ UNCHANGED <<seen, loads, obj, calls, rec, root, prog>>

LookupNew == Called /\ \E index_ \in {1, 2} : object_ctor(index_)

Lookup ==
    /\ Called
    /\ \E page_num_ \in LookupNums(db_hdr.page_size) : object_lookup(page_num_)

NextLookup == Construct \/ OpenLookup \/ LookupNew \/ Lookup

SpecLookup == InitLookup /\ [][NextLookup]_vars

\* ------------------------------ specification of the cache at capacity
\* The page cache with the capacities 4..MaxCapacity that make three
\* sub-caches of at least one entry, on a database of MaxCapacity + 1 pages
\* besides its header, read without errors.  The caller views any page it has
\* viewed before, or the next new one, of one page more than the cache holds,
\* as long as it takes to fill main and have it evict.
MaxCapacity == 5

CachePages == MaxCapacity + 1

\* The number of loads that fill a cache of n entries and go on to evict from
\* its main.
CacheLoads(n) == 2 * n + 1

InitCache == cache_size \in 4..MaxCapacity /\ InitRest

OpenCache ==
    /\ pages_open_call(OpenIo(Disk(SIG_OK, VERSION_8_3_8, CachePages + 1, 4096),
                              (CachePages + 1) * 4096, TRUE, TRUE, GoodIo))
    /\ UNCHANGED <<seen, loads, layers>>

ViewCache ==
    /\ \E index_ \in 1..Min(seen + 1, cache_size + 1) :
         pages_view(index_, 1, 0, GoodIo)
    /\ seen' = (IF op'.read /\ op'.index > seen THEN op'.index ELSE seen)
    /\ loads' = (IF op'.read THEN loads + 1 ELSE loads)
    /\ loads' <= CacheLoads(cache_size)
    /\ UNCHANGED layers

NextCache == Construct \/ OpenCache \/ ViewCache

SpecCache == InitCache /\ [][NextCache]_vars

\* ------------------------------------------------------------- claims
\* The pairs the 2Q cache holds (out holds keys only), and the slots of a
\* sequence of slots or of pairs.
CachedItems == cache_queue.in.items \o cache_queue.main.items
CachedSlots == [p \in 1..Len(CachedItems) |-> CachedItems[p][2]]
AllSlots    == cache_pool \o CachedSlots
PageOfFile(index_) == FileAt(index_ * db_hdr.page_size)
ViewOk      == phase = "open" /\ op.name = "view" /\ op.outcome = "ok"

\* C1: every pair (key, slot) the 2Q cache holds has a slot that holds the page
\* of that key, and a successful view(i, count, offset) returns a pointer to
\* count bytes that are the file's bytes from i * page_size + offset on.
C1_ViewYieldsFileBytes ==
    phase = "open" =>
        /\ \A p \in 1..Len(CachedItems) :
              cache_data[CachedItems[p][2]] = PageOfFile(CachedItems[p][1])
        /\ ViewOk =>
              LET ret == value(op.ret)
                  held == cache_data[ret[1]]
              IN  /\ held[1] = "file"
                  /\ held[2] + ret[2] = op.index * db_hdr.page_size + op.pos
                  /\ ret[2] + op.count <= db_hdr.page_size

\* A hit served from main at a non-zero offset, in a cache that has evicted.
C1_Witness ==
    /\ ViewOk /\ op.from = "main" /\ op.pos > 0
    /\ Len(cache_queue.out.items) > 0

\* C2: while the database is open, after open and after every view call, the
\* free pool and the entries of in and main together number cache_size + 1.
C2_PoolPlusCacheIsCapacityPlusOne ==
    phase = "open" =>
        Len(cache_pool) + Len(cache_queue.in.items) + Len(cache_queue.main.items)
            = cache_size + 1

\* A load into a full cache: one free slot before it and after it.
C2_Witness ==
    /\ ViewOk /\ op.read /\ has_value(op.freed)
    /\ Len(cache_pool) = 1

\* C3: between calls no slot is twice in the free pool, or under two cached
\* keys, or both in the pool and in the cache.
C3_SlotsPartitioned ==
    phase = "open" =>
        \A p, r \in 1..Len(AllSlots) : p # r => AllSlots[p] # AllSlots[r]

\* A load whose admission went to main and evicted from main.
C3_Witness ==
    /\ ViewOk /\ op.read /\ has_value(op.freed)
    /\ \E p \in 1..Len(cache_queue.main.items) : cache_queue.main.items[p][1] = op.index

\* C4: a view whose file read returns an error raises, and leaves the free
\* pool and the three sub-caches as they were before the call.
C4_FailedReadChangesNothing ==
    [][(op'.name = "view" /\ op'.read /\ op'.fe # NO_ERROR) =>
          /\ op'.outcome = "throw_read"
          /\ cache_pool' = cache_pool
          /\ cache_queue' = cache_queue]_vars

\* A read that failed with entries in all three sub-caches.
C4_Witness ==
    /\ op.name = "view" /\ op.outcome = "throw_read"
    /\ Len(cache_queue.in.items) > 0
    /\ Len(cache_queue.out.items) > 0
    /\ Len(cache_queue.main.items) > 0

\* C5: after a successful view(i, ...) and until the next call, the slot behind
\* the returned pointer is held by the cache under key i, is not in the free
\* pool, is not the slot that call evicted, and holds page i.
C5_ReturnedSlotStaysHeld ==
    ViewOk =>
        LET slot == value(op.ret)[1]
        IN  /\ \E p \in 1..Len(CachedItems) : CachedItems[p] = <<op.index, slot>>
            /\ \A p \in 1..Len(cache_pool) : cache_pool[p] # slot
            /\ has_value(op.freed) => value(op.freed)[2] # slot
            /\ cache_data[slot] = PageOfFile(op.index)

\* A load that evicted another page from in.
C5_Witness ==
    /\ ViewOk /\ op.read /\ has_value(op.freed)
    /\ \E p \in 1..Len(cache_queue.in.items) : cache_queue.in.items[p][1] = op.index

Keys(items) == {items[p][1] : p \in 1..Len(items)}

\* A view that loaded a page and admitted it: the push(k, v) of a key k the
\* find before it has missed, v the slot the page went to.
Admitted == op'.name = "view" /\ op'.read /\ op'.outcome = "ok"

\* C6: the 2Q life cycle of a key.  A push of k with k not in out (and not in
\* main) puts k in 'in', and find(k) gives the pushed value, from 'in'; a key
\* that this push evicts from 'in' is in out afterwards, and find misses it; a
\* push of k while k is in out puts k in main, and find(k) gives the pushed
\* value, from main.
C6_TwoQLifeCycle ==
    [][Admitted =>
        LET k == op'.index
            v == value(op'.ret)[1]
            f == twoq_find(cache_queue', k)
        IN  /\ k \notin Keys(cache_queue.main.items)
            /\ k \notin Keys(cache_queue.out.items) =>
                  /\ k \in Keys(cache_queue'.in.items)
                  /\ f.result = Some(v) /\ f.from = "in"
            /\ \A j \in Keys(cache_queue.in.items) \ Keys(cache_queue'.in.items) :
                  /\ j \in Keys(cache_queue'.out.items)
                  /\ ~has_value(twoq_find(cache_queue', j).result)
            /\ k \in Keys(cache_queue.out.items) =>
                  /\ k \in Keys(cache_queue'.main.items)
                  /\ k \notin Keys(cache_queue'.in.items)
                  /\ f.result = Some(v) /\ f.from = "main"]_vars

\* A page has gone the whole way: its load has just put it in main.
C6_Witness ==
    /\ op.name = "view" /\ op.read /\ op.outcome = "ok"
    /\ op.index \in Keys(cache_queue.main.items)
    /\ op.index \in Keys(cache_queue.out.items)
    /\ cache_queue.in.items # <<>>

\* The first entry of 'items' under the key k.
FirstOf(items, k) ==
    items[CHOOSE p \in 1..Len(items) :
            items[p][1] = k /\ \A r \in 1..(p - 1) : items[r][1] # k]

Without(items, k) ==
    LET p == CHOOSE q \in 1..Len(items) :
                items[q][1] = k /\ \A r \in 1..(q - 1) : items[r][1] # k
    IN  SubSeq(items, 1, p - 1) \o SubSeq(items, p + 1, Len(items))

\* C7: find(k) answers from main when k is in main, otherwise from 'in' when k
\* is there, otherwise misses.  A hit in 'in' and a miss leave in, out and main
\* as they were; a hit in main leaves in and out as they were and makes the
\* entry the most recent of main, the others keeping their order.
C7_FindMainFirstNoPromotion ==
    [][op'.name = "find" =>
        LET k == op'.index
            q == cache_queue
        IN  IF k \in Keys(q.main.items)
            THEN /\ op'.from = "main"
                 /\ op'.result = Some(FirstOf(q.main.items, k)[2])
                 /\ cache_queue'.in = q.in /\ cache_queue'.out = q.out
                 /\ cache_queue'.main.items =
                       Append(Without(q.main.items, k), FirstOf(q.main.items, k))
            ELSE IF k \in Keys(q.in.items)
            THEN /\ op'.from = "in"
                 /\ op'.result = Some(FirstOf(q.in.items, k)[2])
                 /\ cache_queue' = q
            ELSE /\ op'.from = "none" /\ op'.result = None
                 /\ cache_queue' = q]_vars

\* find has answered from main for a key that 'in' holds too, under another
\* value, and the entry is now the most recent of several in main.
C7_Witness ==
    /\ op.name = "find" /\ op.from = "main"
    /\ op.index \in Keys(cache_queue.in.items)
    /\ FirstOf(cache_queue.in.items, op.index)[2] # value(op.result)
    /\ Len(cache_queue.main.items) >= 2
    /\ cache_queue.main.items[Len(cache_queue.main.items)] = <<op.index, value(op.result)>>

\* C8: with a page cache of capacity 1 the object can be constructed and
\* opened and its views succeed: nothing aborts.
C8_CapacityOneWorks ==
    cache_size = 1 => phase # "aborted"


\* What open() asks of the file 'io': the file can be opened and sized and its
\* header read, and the header and the size pass the checks.
OpenIoOk(io)   == io.create_ok /\ io.size_ok /\ io.read_ok
OpenPageSize(d) == IF d.version = VERSION_8_2_14 THEN 4096 ELSE d.page_size
OpenHeaderOk(io) ==
    /\ io.disk.sig = SIG_OK
    /\ io.disk.version \in {VERSION_8_2_14, VERSION_8_3_8}
    /\ io.disk.version = VERSION_8_3_8 => io.disk.page_size \in PageSizes
    /\ io.file_size = io.disk.length * OpenPageSize(io.disk)
    /\ io.disk.length >= 1

\* C9 as stated: open returns none exactly when the header and the file size
\* pass the checks; for the older version page_size() is then 4096.
C9_NoneIffHeaderOk ==
    op.name = "open" =>
        /\ op.code = "none" <=> OpenHeaderOk(op.io)
        /\ (op.code = "none" /\ op.io.disk.version = VERSION_8_2_14) =>
              db_hdr.page_size = 4096

\* C9 amended: open returns none exactly when the file could be opened and
\* sized and its header read, and the header and the file size pass the checks;
\* for the older version page_size() is then 4096.
C9_NoneIffReadableAndHeaderOk ==
    op.name = "open" =>
        /\ op.code = "none" <=> (OpenIoOk(op.io) /\ OpenHeaderOk(op.io))
        /\ (op.code = "none" /\ op.io.disk.version = VERSION_8_2_14) =>
              db_hdr.page_size = 4096

\* An older-version database whose page-size word is not 4096 has been opened.
C9_Witness ==
    /\ op.name = "open" /\ op.code = "none"
    /\ op.io.disk.version = VERSION_8_2_14 /\ op.io.disk.page_size = 5000
    /\ phase = "open" /\ db_hdr.page_size = 4096

\* C10: the error open returns: file_system when the file cannot be opened or
\* sized or the header read fails or is short; otherwise bad_file for a wrong
\* signature; otherwise version for a version other than the two supported;
\* otherwise bad_file for a newer-version page size outside the five sizes or
\* a file size other than length * page_size.
OpenReadShort(io) == io.file_size < HDR_SIZE
C10_TypedErrors ==
    op.name = "open" =>
        LET io == op.io
            d  == op.io.disk
        IN  IF ~OpenIoOk(io) \/ OpenReadShort(io) THEN op.code = "file_system"
            ELSE IF d.sig # SIG_OK THEN op.code = "bad_file"
            ELSE IF d.version \notin {VERSION_8_2_14, VERSION_8_3_8}
                 THEN op.code = "version"
            ELSE IF d.version = VERSION_8_3_8 /\ d.page_size \notin PageSizes
                 THEN op.code = "bad_file"
            ELSE IF io.file_size # d.length * OpenPageSize(d) \/ d.length = 0
                 THEN op.code = "bad_file"
            ELSE op.code = "none"

\* The arguments of the view 'call' are the ones the interface allows:
\* 1 <= index < length, and offset + count <= page_size with no wrap-around.
ViewArgsValid(call) ==
    /\ 1 <= call.index /\ call.index < db_hdr.length
    /\ call.pos + call.count < SIZE_MOD
    /\ call.pos + call.count <= db_hdr.page_size

ViewRefused(call) == call.outcome \in {"throw_index", "throw_interval"}

\* C11: view(page_index, count, offset) is accepted exactly when
\* 1 <= page_index < length and offset + count <= page_size without overflow;
\* every other call raises with the cache, the pool and the file untouched.
C11_ViewAcceptedIffInBounds ==
    [][op'.name = "view" =>
        /\ ViewArgsValid(op') <=> ~ViewRefused(op')
        /\ ViewRefused(op') =>
              /\ ~op'.read
              /\ cache_queue' = cache_queue /\ cache_pool' = cache_pool
              /\ cache_data' = cache_data]_vars

ObjectReadCall == op.name = "object_read" /\ obj.valid

\* C12: object::read(dst, count, pos) raises 'requested interval exceeds object
\* size' exactly when pos + count > length or pos + count overflows.
C12_ReadRefusedIffBeyondLength ==
    ObjectReadCall =>
        (op.outcome = "throw_object_interval" <=>
            \/ op.pos + op.count >= SIZE_MOD
            \/ op.pos + op.count > obj.hdr.length)

\* The page of the file that holds page number n of the object o: entry n of
\* the header's array (pmt_type = 0), or entry n mod (page_size / 4) of the
\* placement table that entry n div (page_size / 4) of the header names.
MappedPage(o, n) ==
    LET per_pmt == db_hdr.page_size \div 4
        pmt     == index_at(o.hdr.blocks, n \div per_pmt)
    IN  IF o.hdr.pmt_type = 0 THEN index_at(o.hdr.blocks, n)
        ELSE IF pmt \in 1..Len(file_data) /\ file_data[pmt].kind = "pmt"
        THEN index_at(file_data[pmt].data_blocks, n % per_pmt)
        ELSE 0

\* Every page of the object o is a page of the file other than page 0.
WellPlaced(o) ==
    \A n \in 0..((o.hdr.length + db_hdr.page_size - 1) \div db_hdr.page_size - 1) :
        MappedPage(o, n) \in 1..(db_hdr.length - 1)

\* The file offset of byte k of the runs dst.
RECURSIVE RunsByte(_, _)
RunsByte(dst, k) ==
    IF k < Head(dst)[2] THEN Head(dst)[1] + k ELSE RunsByte(Tail(dst), k - Head(dst)[2])

\* The first and the last byte of a request and of each page it crosses.
EdgeBytes(count_, pos_) ==
    LET ps == db_hdr.page_size
    IN  ({0, count_ - 1} \cup
         UNION {{n * ps - pos_, n * ps - pos_ - 1} :
                    n \in (pos_ \div ps)..((pos_ + count_) \div ps)})
        \cap 0..(count_ - 1)

\* C13: a read of a request that passes the interval validation, on an object
\* whose pages are in the file, raises only if a file read fails; when it
\* returns it has copied exactly count bytes, and byte k of dst is the byte at
\* offset (pos + k) mod page_size of the page mapped to page number
\* (pos + k) div page_size.
C13_ReadCopiesMappedBytes ==
    (ObjectReadCall /\ op.pos < obj.hdr.length
                    /\ op.pos + op.count <= obj.hdr.length) =>
        /\ WellPlaced(obj) => op.outcome \in {"ok", "throw_read"}
        /\ op.outcome = "ok" =>
              /\ RunsSize(op.dst) = op.count
              /\ \A k \in EdgeBytes(op.count, op.pos) :
                    RunsByte(op.dst, k) =
                        MappedPage(obj, (op.pos + k) \div db_hdr.page_size)
                            * db_hdr.page_size
                        + ((op.pos + k) % db_hdr.page_size)

\* A read across a page boundary, from inside a page, of an object placed by a
\* placement table.
C13_Witness ==
    /\ ObjectReadCall /\ op.outcome = "ok"
    /\ obj.hdr.pmt_type = 1
    /\ op.pos % db_hdr.page_size # 0
    /\ Len(op.dst) = 2

BlobGetCall == op.name = "blob_get" /\ obj.valid
BlkCount(o) == o.hdr.length \div 256

\* Block i of the BLOB object o, as the file holds it.
FileBlk(o, i) ==
    LET at == 256 * i
        p  == MappedPage(o, at \div db_hdr.page_size)
        n  == (at % db_hdr.page_size) \div 256
    IN  IF p \in 1..Len(file_data) /\ file_data[p].kind = "blob"
           /\ n + 1 <= Len(file_data[p].blocks)
        THEN file_data[p].blocks[n + 1]
        ELSE [nextblock |-> 0, length |-> 0]

\* The file offset of the data of block i of the object o.
FileBlkData(o, i) ==
    MappedPage(o, (256 * i) \div db_hdr.page_size) * db_hdr.page_size
        + ((256 * i) % db_hdr.page_size) + 6

\* The block whose data is the last run of the result.
LastBlk(o, result) ==
    CHOOSE i \in 0..BlkCount(o) : FileBlkData(o, i) = result[Len(result)][1]

\* C14: get reads at most block_count blocks and then returns or raises; it
\* raises 'loop detected' only with the cap used up, and always when the cap is
\* used up by blocks that were all accepted and the last of them links on.
C14_GetReadsAtMostBlockCount ==
    BlobGetCall =>
        /\ op.reads <= BlkCount(obj)
        /\ Len(op.result) <= op.reads
        /\ op.outcome = "throw_blob_loop" =>
              op.reads = BlkCount(obj) /\ Len(op.result) = BlkCount(obj)
        /\ (/\ BlkCount(obj) > 0 /\ Len(op.result) = BlkCount(obj)
            /\ FileBlk(obj, LastBlk(obj, op.result)).nextblock # 0) =>
              op.outcome = "throw_blob_loop"

\* get has gone round the two blocks that link to each other until the cap.
C14_Witness ==
    /\ BlobGetCall /\ op.outcome = "throw_blob_loop"
    /\ op.reads = BlkCount(obj) /\ BlkCount(obj) > 2
    /\ op.index = 4

\* C15 as stated: on the object of two blocks in which block 0 links to block
\* 1 and block 1 links to block 0, get raises the loop error.
C15_TwoBlockLoopRaises ==
    (/\ BlobGetCall /\ BlkCount(obj) = 2 /\ op.index < 2
     /\ FileBlk(obj, 0).nextblock = 1 /\ FileBlk(obj, 1).nextblock = 0) =>
        op.outcome = "throw_blob_loop"

\* The blocks a and b of the object o are sound and link to each other.
LinkedPair(o, a, b) ==
    /\ a \in 1..(BlkCount(o) - 1) /\ b \in 1..(BlkCount(o) - 1)
    /\ FileBlk(o, a).nextblock = b /\ FileBlk(o, b).nextblock = a
    /\ FileBlk(o, a).length \in 1..250 /\ FileBlk(o, b).length \in 1..250

\* C15 amended: when two blocks other than block 0 link to each other, get
\* started at either of them with no expected size raises the loop error
\* (unless a file read fails first).
C15_LinkedPairRaisesLoop ==
    (BlobGetCall /\ op.size = 0 /\ op.index >= 1
       /\ LinkedPair(obj, op.index, FileBlk(obj, op.index).nextblock)) =>
        op.outcome \in {"throw_blob_loop", "throw_read"}

\* get started in the pair of blocks 4 and 5 has raised the loop error.
C15_Witness ==
    /\ BlobGetCall /\ op.size = 0 /\ op.index = 5
    /\ LinkedPair(obj, 5, 4)
    /\ op.outcome = "throw_blob_loop"

\* C16: get with expected_size > 0 returns only a result of exactly
\* expected_size bytes; it never takes a block that would make the result
\* longer than expected_size but raises; and it raises at the end of a chain
\* that is shorter.
C16_ExpectedSizeIsExact ==
    (BlobGetCall /\ op.size > 0) =>
        /\ RunsSize(op.result) <= op.size
        /\ op.outcome = "ok" => RunsSize(op.result) = op.size
        /\ op.outcome = "throw_blob_expected" <=>
              /\ op.reads = Len(op.result) /\ op.reads > 0
              /\ FileBlk(obj, LastBlk(obj, op.result)).nextblock = 0
              /\ RunsSize(op.result) < op.size
        /\ op.outcome = "throw_blob_capacity" =>
              op.reads = Len(op.result) + 1

\* Expected 10 on the chain 9 -> 10 of 20 bytes: get has raised at block 10.
C16_Witness ==
    /\ BlobGetCall /\ op.size = 10 /\ op.index = 9
    /\ op.outcome = "throw_blob_capacity"
    /\ op.reads = 2 /\ RunsSize(op.result) = 10

\* The chain that starts at block i of the object o is made of sound blocks and
\* ends within 'fuel' blocks.
RECURSIVE ChainOk(_, _, _)
ChainOk(o, i, fuel) ==
    /\ fuel > 0
    /\ i \in 1..(BlkCount(o) - 1)
    /\ FileBlk(o, i).length <= 250
    /\ FileBlk(o, i).length = 0 => FileBlk(o, i).nextblock = 0
    /\ FileBlk(o, i).nextblock # 0 => ChainOk(o, FileBlk(o, i).nextblock, fuel - 1)

\* The data of the chain that starts at block i, block after block.
RECURSIVE ChainRuns(_, _)
ChainRuns(o, i) ==
    <<<<FileBlkData(o, i), FileBlk(o, i).length>>>> \o
    (IF FileBlk(o, i).nextblock = 0 THEN <<>>
     ELSE ChainRuns(o, FileBlk(o, i).nextblock))

C18_BlobSizeNonZeroMultiple ==
    (op.name = "blob" /\ op.outcome = "ok") =>
        /\ obj.valid
        /\ obj.hdr.length # 0
        /\ obj.hdr.length % 256 = 0


RecordsCall == op.name = "records" /\ op.outcome = "ok"
SeekCall    == op.name = "seek" /\ rec.valid

C20_SeekClearsBeforeRead ==
    [][ (SeekCall' /\ op'.index < rec.records_count) =>
          IF rec.last_index = Some(op'.index)
          THEN /\ op'.read = <<>>
               /\ op'.outcome = "ok"
               /\ rec' = rec
               /\ cache_data' = cache_data
               /\ cache_queue' = cache_queue
          ELSE /\ op'.read = <<rec.stride, op'.index * rec.stride>>
               /\ rec'.last_index = (IF op'.outcome = "ok" THEN Some(op'.index)
                                     ELSE None)
      ]_vars

\* A read failed for a seek from a current record to another one.
C20_Witness ==
    /\ SeekCall /\ op.outcome # "ok" /\ op.read # <<>>
    /\ rec.last_index = None
    /\ calls = 3


\* The file offset of byte 'at' of the object o.
MappedByte(o, at) ==
    MappedPage(o, at \div db_hdr.page_size) * db_hdr.page_size
        + (at % db_hdr.page_size)

\* C21: whenever last_index holds a value i, the buffer 'record' holds the
\* bytes [i * stride, (i + 1) * stride) of the object, whatever seeks were made
\* before: the current one, one out of range, or one whose read failed.
C21_RecordIsLastReadRow ==
    (rec.valid /\ has_value(rec.last_index)) =>
        /\ RunsSize(rec.record) = rec.stride
        /\ \A k \in 0..(rec.stride - 1) :
              RunsByte(rec.record, k)
                  = MappedByte(obj, value(rec.last_index) * rec.stride + k)

\* The record that lies across two pages is current, read after an earlier seek.
C21_Witness ==
    /\ SeekCall /\ op.outcome = "ok" /\ calls = 3
    /\ rec.last_index = Some(163)
    /\ Len(rec.record) = 2


\* Byte k of the current row, as the file holds it.
RowByte(k) == file_byte(MappedByte(obj, value(rec.last_index) * rec.stride + k))

IsDeletedCall == op.name = "is_deleted" /\ rec.valid
GetFieldCall  == op.name = "get_field" /\ rec.valid

\* is_deleted() on a current row returns whether the first byte of the row is 1.
IsDeletedReportsFirstByte ==
    (IsDeletedCall /\ seek_success(rec)) =>
        /\ op.outcome = "ok"
        /\ value(op.ret) = (RowByte(0) = 1)

\* get_field on a current row whose first byte is 1 ends in the assertion.
DeletedRowAborts ==
    (GetFieldCall /\ seek_success(rec) /\ RowByte(0) = 1) => op.outcome = "aborted"

\* C22: is_deleted() on the current row returns true exactly when the first
\* byte of the row is 1, and get_field on a row reported deleted trips the
\* assertion and returns no field.
C22_DeletedRowGivesNoField == IsDeletedReportsFirstByte /\ DeletedRowAborts


\* C23: is_deleted() and get_field() called while no row is current (before
\* the first successful seek, or after a seek whose read failed) raise the
\* exception of the library and return no value.
C23_UnseekedAccessRaises ==
    ((IsDeletedCall \/ GetFieldCall) /\ ~has_value(rec.last_index)) =>
        /\ op.outcome = "throw_no_record"
        /\ IsDeletedCall => op.ret = None
        /\ GetFieldCall => op.exists = None /\ op.size = 0

\* get_field after a seek whose read failed on the second page of the record:
\* the buffer holds the first part of the row.
C23_Witness ==
    /\ GetFieldCall /\ rec.last_index = None
    /\ Len(rec.record) = 2
    /\ op.outcome = "throw_no_record"


\* The 16-bit number at bytes k, k + 1 of the current row, as the file holds it.
RowWord(k) == RowByte(k) + 256 * RowByte(k + 1)

\* C24: get_field<T>(index) of a column of a current row that is not deleted
\* raises the type error when the column is not of type T; returns a T without
\* a value, and looks at no payload, when the column is nullable and its
\* presence byte is 0; otherwise decodes T from the slot of the column, less
\* the presence byte when the column is nullable (size - 1 bytes after it).
C24_GetFieldDecodesSlot ==
    (GetFieldCall /\ has_value(rec.last_index) /\ RowByte(0) # 1
                  /\ op.index < Len(rec.fields)) =>
        LET f    == rec.fields[op.index + 1]
            nul  == IF f.params.null_exists THEN 1 ELSE 0
            from == f.shift + nul
        IN  IF f.params.type # op.type
            THEN op.outcome = "throw_field_mismatch"
            ELSE IF f.params.null_exists /\ RowByte(f.shift) = 0
            THEN op.outcome = "ok" /\ op.exists = None /\ op.size = 0
            ELSE /\ op.at = from
                 /\ op.size = f.size - nul
                 /\ op.size = field_size(f.params.type, f.params.length)
                 /\ op.type = "boolean" =>
                       /\ op.outcome = "ok"
                       /\ op.exists = Some(RowByte(from) # 0)
                 /\ op.type = "str_var" =>
                       IF RowWord(from) > f.params.length
                       THEN op.outcome = "throw_string_length"
                       ELSE /\ op.outcome = "ok"
                            /\ op.exists = Some([n \in 1..RowWord(from) |->
                                                    RowWord(from + 2 * n)])

\* The NAME "AB" of record 0 was decoded from the 22 bytes after the presence
\* byte of its slot.
C24_Witness ==
    /\ GetFieldCall /\ op.outcome = "ok"
    /\ rec.last_index = Some(0)
    /\ op.type = "str_var" /\ op.at = 2 /\ op.size = 22
    /\ op.exists = Some(<<65, 66>>)


\* The failures the code reports by 'throw exception(...)'.
LibraryExceptions ==
    {"throw_index", "throw_interval", "throw_read",
     "throw_version", "throw_page_size", "throw_type", "throw_size", "throw_pmt",
     "throw_object_interval",
     "throw_blob_size", "throw_blob_param", "throw_blob_index", "throw_blob_length",
     "throw_blob_capacity", "throw_blob_expected", "throw_blob_loop",
     "throw_field_type", "throw_records_size", "throw_record_index",
     "throw_no_record", "throw_field_mismatch", "throw_string_length"}

\* A call of the library, other than open(), that came back with a failure.
FailedCall ==
    /\ "outcome" \in DOMAIN op
    /\ op.outcome \notin {"ok", "aborted"}

\* C25: every failure of a call other than pages::open is an exception of the
\* one kind of the library: also a page index, a record index, a buffer offset
\* or a field index (get_field of an index past the columns) out of bounds.
C25_FailuresAreLibraryExceptions ==
    FailedCall => op.outcome \in LibraryExceptions


RootCall     == op.name = "root" /\ op.outcome = "ok"
RootReadCall == op.name = "root_read" /\ root.valid

\* The 32-bit number at byte k of the header BLOB of the root, as the file
\* holds it: the header is the data of block 1 of the object of page 2.
RootHdrWord(k) ==
    LET at == FileBlkData(obj, 1) + k
        p  == at \div db_hdr.page_size
        n  == at % db_hdr.page_size
    IN  IF n \in DOMAIN file_data[p].words THEN file_data[p].words[n] ELSE 0
RootHdrSize == FileBlk(obj, 1).length

\* C27: a root is constructed only over a header BLOB of at least 36 bytes
\* whose count of tables is (blob_size - 36) / 4; then read(i) raises for every
\* i >= size(), and for i < size() takes the index of the description from
\* bytes 36 + 4 * i .. 36 + 4 * i + 3 of the header BLOB, which lie inside it.
C27_RootReadsInsideHeader ==
    /\ RootCall =>
          /\ root.valid /\ RunsSize(root.hdr_data) = RootHdrSize
          /\ RootHdrSize >= 36
          /\ RootHdrWord(32) = (RootHdrSize - 36) \div 4
    /\ RootReadCall =>
          IF op.num >= RootHdrWord(32)
          THEN op.outcome = "throw_root_index" /\ op.at = -1
          ELSE /\ op.at = 36 + 4 * op.num
               /\ op.at + 4 <= RootHdrSize
               /\ op.index = RootHdrWord(op.at)

\* The description of the last of two tables was read; its index is the last
\* four bytes of the header BLOB.
C27_Witness ==
    /\ RootReadCall /\ op.outcome = "ok"
    /\ op.num = 1 /\ op.at + 4 = RootHdrSize /\ op.index = 3


\* The sample program has returned after it found V8USERS, and no read of the
\* file failed.
UsersListed ==
    /\ prog.pc = "done" /\ has_value(prog.params)
    /\ prog.err # "throw_read"

\* Byte k of row i of the table of the cursor, as the file holds it.
TableByte(i, k) == file_byte(MappedByte(obj, i * rec.stride + k))

\* The line of row i of V8USERS: the mark of SHOW (byte 24) and the NAME (a
\* length at bytes 2, 3 and so many 16-bit characters from byte 4 on).
UsersLine(i) ==
    [show |-> TableByte(i, 24) # 0,
     name |-> [n \in 1..(TableByte(i, 2) + 256 * TableByte(i, 3)) |->
                  TableByte(i, 2 + 2 * n) + 256 * TableByte(i, 3 + 2 * n)]]

\* The lines of the rows i, i + 1, ... that are not deleted.
RECURSIVE UsersLines(_)
UsersLines(i) ==
    IF i >= rec.records_count THEN <<>>
    ELSE IF TableByte(i, 0) = 1 THEN UsersLines(i + 1)
    ELSE <<UsersLine(i)>> \o UsersLines(i + 1)

\* No row that is not deleted is without a NAME.
UsersNamed ==
    \A i \in 0..(rec.records_count - 1) :
        TableByte(i, 0) = 1 \/ TableByte(i, 1) # 0

\* For a table whose rows that are not deleted all have a NAME, the sample
\* program prints one line for each of them, in the order of the rows.
UsersListsNamedRows ==
    (UsersListed /\ UsersNamed) => (prog.out = UsersLines(0) /\ prog.ret = 0)

\* C26: over a well-formed file with a table V8USERS of a nullable NAME and a
\* boolean SHOW, the sample program prints one line for each row that is not
\* deleted, in the order of the rows, and none for a deleted row.
C26_UsersListPrintsEveryRow ==
    UsersListed => prog.out = UsersLines(0)


DecompressCall == op.name = "decompress"
InputSize      == Len(op.src.yield)

\* The size of what the whole stream inflates to.
RECURSIVE Inflated(_)
Inflated(y) == IF y = <<>> THEN 0 ELSE Head(y) + Inflated(Tail(y))

\* C28: in decompress the output buffer starts at the size of the input and
\* is never larger than max_size; a growth step doubles it, or makes it
\* max_size when twice the size would pass max_size; the bytes returned are
\* never more than max_size, and an input longer than max_size is rejected.
C28_BufferStaysWithinMaxSize ==
    DecompressCall =>
        /\ InputSize > op.max_size => op.outcome = "throw_deflate_size"
        /\ op.sizes # <<>> => op.sizes[1] = InputSize
        /\ \A k \in 1..Len(op.sizes) : op.sizes[k] <= op.max_size
        /\ \A k \in 1..(Len(op.sizes) - 1) :
              op.sizes[k + 1] = (IF 2 * op.sizes[k] > op.max_size
                                 THEN op.max_size ELSE 2 * op.sizes[k])
        /\ op.outcome = "ok" => op.ret <= op.max_size

\* A buffer of 3 bytes was doubled and then grown to the limit of 8 bytes,
\* which the output fills.
C28_Witness ==
    /\ DecompressCall /\ op.outcome = "ok"
    /\ op.sizes = <<3, 6, 8>> /\ op.max_size = 8 /\ op.ret = 8

\* C29: decompress fails only if the output would pass max_size, the input
\* ends before the stream does, or zlib reports an error: a complete stream
\* whose output is at most max_size bytes is returned whole, also when zlib
\* has taken all the input while the output buffer was full.
C29_CompleteStreamIsReturned ==
    (DecompressCall /\ op.src.kind = "complete" /\ op.init_ok
                    /\ InputSize <= op.max_size
                    /\ Inflated(op.src.yield) <= op.max_size) =>
        /\ op.outcome = "ok"
        /\ op.ret = Inflated(op.src.yield)


\* The pages of the file that the layers above pages may read.
OwnPages == 1..(db_hdr.length - 1)

\* Every byte of the runs is a byte of a page of OwnPages.
RunsInFile(runs) ==
    \A k \in 1..Len(runs) :
        (runs[k][1] >= 0 /\ runs[k][2] > 0) =>
            /\ runs[k][1] \div db_hdr.page_size \in OwnPages
            /\ (runs[k][1] + runs[k][2] - 1) \div db_hdr.page_size
                   = runs[k][1] \div db_hdr.page_size

\* The pages of an object that a request of count_ bytes at pos_ lies in.
PagesOf(count_, pos_) ==
    IF count_ = 0 THEN {}
    ELSE (pos_ \div db_hdr.page_size)..((pos_ + count_ - 1) \div db_hdr.page_size)

\* C30: no byte that an operation on an object, a BLOB, the root or records
\* gives out is a byte of page 0 or of a page past the end of the database:
\* the index of an object header, an entry of the placement array of the
\* header or an entry of a placement table that is 0 or >= length makes the
\* operation raise.
C30_NoBytesOfForeignPages ==
    /\ op.name = "object" =>
          /\ op.index \notin OwnPages => op.outcome = "throw_index"
          /\ op.outcome = "ok" => obj.index \in OwnPages
    /\ op.name = "object_read" =>
          /\ RunsInFile(op.dst)
          /\ (/\ obj.valid
              /\ op.pos < obj.hdr.length /\ op.pos + op.count <= obj.hdr.length
              /\ \E n \in PagesOf(op.count, op.pos) : MappedPage(obj, n) \notin OwnPages)
             => op.outcome # "ok"
    /\ op.name \in {"blob_get", "root_read"} => RunsInFile(op.result)
    /\ root.valid => RunsInFile(root.hdr_data)
    /\ rec.valid => RunsInFile(rec.record)

\* The first page of an object was read, and the read of its second page,
\* which its placement table puts at page 0, raised.
C30_Witness ==
    /\ op.name = "object_read" /\ obj.valid /\ obj.hdr.pmt_type = 1
    /\ op.count = 8192 /\ op.pos = 0
    /\ op.outcome = "throw_index" /\ Len(op.dst) = 1


\* The entries of 'items' as a set.
Entries(items) == {items[p] : p \in 1..Len(items)}

\* C31: twoq.push(k, v), called after find(k) has missed.  If k is in out
\* the entry goes to main, 'in' and out stay as they are, and what is returned
\* is the entry main evicted, if any.  Otherwise the entry goes to 'in', main
\* stays as it is, what is returned is the entry 'in' evicted, if any, and the
\* key of that entry is in out afterwards; a key that out lost is not the key
\* returned.  After the push, find misses the key of the entry returned.
C31_PushReturnsWhatWasEvicted ==
    [][Admitted =>
        LET k   == op'.index
            v   == value(op'.ret)[1]
            q   == cache_queue
            n   == cache_queue'
            res == op'.freed
        IN  /\ IF k \in Keys(q.out.items)
               THEN /\ n.in = q.in /\ n.out = q.out
                    /\ IF Len(q.main.items) < q.main.max_size
                       THEN /\ res = None
                            /\ n.main.items = Append(q.main.items, <<k, v>>)
                       ELSE /\ res = Some(Head(q.main.items))
                            /\ n.main.items = Append(Tail(q.main.items), <<k, v>>)
               ELSE /\ n.main = q.main
                    /\ <<k, v>> \in Entries(n.in.items)
                    /\ IF Len(q.in.items) < q.in.max_size
                       THEN /\ res = None
                            /\ n.out = q.out
                            /\ Entries(n.in.items) = Entries(q.in.items) \cup {<<k, v>>}
                       ELSE /\ has_value(res)
                            /\ value(res) \in Entries(q.in.items)
                            /\ Entries(n.in.items) =
                                  (Entries(q.in.items) \ {value(res)}) \cup {<<k, v>>}
                            /\ value(res)[1] \in Keys(n.out.items)
                            /\ \A g \in Keys(q.out.items) \ Keys(n.out.items) :
                                  g # value(res)[1]
            /\ has_value(res) => ~has_value(twoq_find(n, value(res)[1]).result)]_vars

\* A push has put a page in 'in', the entry 'in' evicted for it was returned,
\* and its key overwrote the oldest key of a full out.
C31_Witness ==
    /\ op.name = "view" /\ op.read /\ op.outcome = "ok" /\ has_value(op.freed)
    /\ op.index \in Keys(cache_queue.in.items)
    /\ Len(cache_queue.out.items) = cache_queue.out.max_size
    /\ cache_queue.out.max_size = 2 /\ cache_queue.out.next_item = 2
    /\ cache_queue.out.items[1][1] = value(op.freed)[1]
    /\ cache_queue.main.items # <<>>


\* The entry of 'items' under the key k.
EntryOf(items, k) == CHOOSE e \in Entries(items) : e[1] = k

\* C32: a fifo of capacity N.  A push while it holds fewer than N entries
\* appends the entry and returns nothing; a push while it holds N entries
\* returns the oldest entry stored, the one pushed N pushes earlier, and puts
\* the new entry in its place; the fifo never holds more than N entries; a
\* find returns the value stored under the key, or nothing, and leaves the
\* fifo as it was.
C32_FifoEvictsOldest ==
    [][/\ op'.name = "fifo_push" =>
            LET N == cache_queue.max_size
                k == op'.index
                e == EntryOf(cache_queue'.items, k)
            IN  /\ k \in Keys(cache_queue'.items)
                /\ Len(cache_queue'.items) <= N
                /\ IF Len(cache_queue.items) < N
                   THEN /\ op'.result = None
                        /\ cache_queue'.items = Append(cache_queue.items, e)
                   ELSE /\ has_value(op'.result)
                        /\ value(op'.result)[1] = k - N
                        /\ value(op'.result) = EntryOf(cache_queue.items, k - N)
                        /\ \A j \in Keys(cache_queue.items) : j >= k - N
                        /\ Entries(cache_queue'.items) =
                              (Entries(cache_queue.items) \ {value(op'.result)}) \cup {e}
       /\ op'.name = "fifo_find" =>
            /\ cache_queue' = cache_queue
            /\ op'.result = IF op'.index \in Keys(cache_queue.items)
                            THEN Some(EntryOf(cache_queue.items, op'.index)[2])
                            ELSE None]_vars

\* A fifo of three entries has evicted for the second time round: the push
\* that came three pushes after the one that filled it.
C32_Witness ==
    /\ phase = "fifo" /\ op.name = "fifo_push"
    /\ cache_queue.max_size = 3 /\ op.index = 7
    /\ has_value(op.result) /\ value(op.result)[1] = 4
    /\ Keys(cache_queue.items) = {5, 6, 7}


\* The place of the key k in the log of uses: the later, the more recent.
UsedAt(k) == CHOOSE p \in 1..Len(prog.used) : prog.used[p] = k

\* C33: an lru of capacity N.  A find that hits returns the value stored under
\* the key and moves the entry behind all the others, which keep their order;
\* a find that misses changes nothing.  A push while it holds fewer than N
\* entries appends the entry and returns nothing; a push while it holds N
\* entries removes and returns the entry in front, which is the stored entry
\* whose last push or find is the earliest, and appends the new one.  The lru
\* never holds more than N entries.
C33_LruEvictsLeastRecent ==
    [][/\ op'.name = "lru_find" =>
            LET k == op'.index
            IN  IF k \in Keys(cache_queue.items)
                THEN /\ op'.result = Some(FirstOf(cache_queue.items, k)[2])
                     /\ cache_queue'.items =
                           Append(Without(cache_queue.items, k),
                                  FirstOf(cache_queue.items, k))
                ELSE /\ op'.result = None
                     /\ cache_queue' = cache_queue
       /\ op'.name = "lru_push" =>
            LET N == cache_queue.max_size
                e == cache_queue'.items[Len(cache_queue'.items)]
            IN  /\ e[1] = op'.index
                /\ Len(cache_queue'.items) <= N
                /\ IF Len(cache_queue.items) < N
                   THEN /\ op'.result = None
                        /\ cache_queue'.items = Append(cache_queue.items, e)
                   ELSE /\ op'.result = Some(Head(cache_queue.items))
                        /\ cache_queue'.items = Append(Tail(cache_queue.items), e)
                        /\ \A j \in Keys(Tail(cache_queue.items)) :
                              UsedAt(Head(cache_queue.items)[1]) < UsedAt(j)]_vars

\* A full lru of three entries has evicted the entry pushed second: the one
\* pushed first had been found since.
C33_Witness ==
    /\ phase = "lru" /\ op.name = "lru_push" /\ cache_queue.max_size = 3
    /\ op.index = 4 /\ has_value(op.result) /\ value(op.result)[1] = 2
    /\ Keys(cache_queue.items) = {1, 3, 4}
    /\ prog.used = <<2, 3, 1, 4>>


\* The page of a view call is held by 'in' or by main when the call is made.
Held == op'.index \in Keys(cache_queue.in.items) \cup Keys(cache_queue.main.items)

\* C34: a view of a page that 'in' or main holds reads nothing from the file
\* and leaves the free pool, 'in' and out as they were, and main with the
\* entries it had (their order may change); with arguments view accepts it
\* returns the slot stored for the page.  A view reads from the file only when
\* neither 'in' nor main holds the page.
C34_HitReadsNothing ==
    [][op'.name = "view" =>
        /\ Held =>
              /\ ~op'.read
              /\ cache_pool' = cache_pool
              /\ cache_queue'.in = cache_queue.in
              /\ cache_queue'.out = cache_queue.out
              /\ Entries(cache_queue'.main.items) = Entries(cache_queue.main.items)
              /\ Len(cache_queue'.main.items) = Len(cache_queue.main.items)
              /\ (/\ view_index_ok(db_hdr, op'.index)
                  /\ view_interval_ok(db_hdr, op'.count, op'.pos)) =>
                    /\ op'.outcome = "ok"
                    /\ op'.from \in {"in", "main"}
                    /\ \E e \in Entries(cache_queue.in.items)
                                \cup Entries(cache_queue.main.items) :
                          e[1] = op'.index /\ op'.ret = Some(<<e[2], op'.pos>>)
        /\ op'.read => ~Held]_vars

\* A view was answered from main, whose most recent entry is now the page
\* viewed, while 'in' and out hold other pages.
C34_Witness ==
    /\ op.name = "view" /\ op.outcome = "ok" /\ ~op.read /\ op.from = "main"
    /\ Len(cache_queue.main.items) >= 2
    /\ cache_queue.main.items[Len(cache_queue.main.items)][1] = op.index
    /\ cache_queue.in.items # <<>> /\ cache_queue.out.items # <<>>


\* The width of the slot of a column: its null flag and its value.
SlotWidth(c) ==
    (IF c.null_exists THEN 1 ELSE 0)
    + (CASE c.type = "binary"   -> c.length
         [] c.type = "boolean"  -> 1
         [] c.type = "digit"    -> (c.length + 2) \div 2
         [] c.type = "str_fix"  -> 2 * c.length
         [] c.type = "str_var"  -> 2 * c.length + 2
         [] c.type = "version"  -> 16
         [] c.type \in {"str_blob", "bin_blob"} -> 8
         [] c.type = "datetime" -> 7
         [] OTHER -> 0)

\* 1 plus the widths of the first n columns.
RECURSIVE SlotsEnd(_, _)
SlotsEnd(params_, n) ==
    IF n = 0 THEN 1 ELSE SlotsEnd(params_, n - 1) + SlotWidth(params_[n])

\* C35: the stride of a record is 1 plus the widths of the slots of all the
\* columns, and 5 when that is less than 5; the slot of a column is 1 byte
\* when it is nullable plus the width of its type; column k starts where
\* column k - 1 ends, the first at 1; a column of an unknown type makes
\* prepare_fields raise.
C35_StrideIsSumOfSlots ==
    op.name = "prepare_fields" =>
        LET p == op.params
        IN  IF \E k \in 1..Len(p) : p[k].type \notin FTypes
            THEN op.outcome = "throw_field_type"
            ELSE /\ op.outcome = "ok"
                 /\ op.shift = (IF SlotsEnd(p, Len(p)) < 5 THEN 5
                                ELSE SlotsEnd(p, Len(p)))
                 /\ Len(op.fields) = Len(p)
                 /\ \A k \in 1..Len(p) :
                       /\ op.fields[k].params = p[k]
                       /\ op.fields[k].size = SlotWidth(p[k])
                       /\ op.fields[k].shift = SlotsEnd(p, k - 1)

\* A nullable digit column of 5 digits after a string column of 2 characters:
\* the digits start at 7 and the stride is 11.
C35_Witness ==
    /\ op.name = "prepare_fields" /\ op.outcome = "ok" /\ Len(op.params) = 2
    /\ op.params[1].type = "str_var" /\ op.params[1].length = 2
    /\ ~op.params[1].null_exists
    /\ op.params[2].type = "digit" /\ op.params[2].length = 5
    /\ op.params[2].null_exists
    /\ op.fields[2].shift = 7 /\ op.shift = 11


\* Entry n of a placement array of the file, counted from 0.
EntryAt(blocks_, n) == blocks_[n + 1]

\* C36: the lookup of page number n of an object.  With pmt_type = 0 it
\* raises 'page number exceeds placement table' iff n >= (page_size - 24) / 4
\* and otherwise gives entry n of the header.  With pmt_type = 1 it raises
\* that iff n div (page_size / 4) >= (page_size - 24) / 4 and otherwise goes
\* to the page that entry n div (page_size / 4) of the header names, and gives
\* entry n mod (page_size / 4) of it unless that page cannot be viewed.
C36_LookupByHeaderOrTable ==
    op.name = "page_num_to_index" =>
        LET n      == op.page_num
            in_hdr == (db_hdr.page_size - 24) \div 4
            in_pmt == db_hdr.page_size \div 4
            hdr    == file_data[obj.index]
        IN  IF hdr.pmt_type = 0
            THEN /\ op.outcome = "throw_pmt" <=> n >= in_hdr
                 /\ n < in_hdr =>
                       op.outcome = "ok" /\ op.index = EntryAt(hdr.blocks, n)
            ELSE /\ op.outcome = "throw_pmt" <=> n \div in_pmt >= in_hdr
                 /\ n \div in_pmt < in_hdr =>
                       LET t == EntryAt(hdr.blocks, n \div in_pmt)
                       IN  IF t \in 1..(db_hdr.length - 1)
                           THEN /\ op.outcome \in {"ok", "throw_read"}
                                /\ op.outcome = "ok" =>
                                      op.index = EntryAt(file_data[t].data_blocks,
                                                         n % in_pmt)
                           ELSE op.outcome = "throw_index"

\* The second page of the second table of an object of 4 KiB pages was looked
\* up: page number 1025, entry 1 of the table at page 4.
C36_Witness ==
    /\ op.name = "page_num_to_index" /\ op.outcome = "ok"
    /\ obj.valid /\ obj.hdr.pmt_type = 1 /\ db_hdr.page_size = 4096
    /\ op.page_num = 1025 /\ op.index = 7002


\* The checks get makes on a block it has read.
BlkSound(b) == b.length <= 250 /\ (b.length = 0 => b.nextblock = 0)

\* What get started at block i with 'fuel' turns of its loop left meets
\* first: an index that is not < block_count, a block that fails the checks,
\* or neither.
RECURSIVE FirstFail(_, _, _)
FirstFail(o, i, fuel) ==
    IF fuel = 0 THEN "none"
    ELSE IF i >= BlkCount(o) THEN "index"
    ELSE IF ~BlkSound(FileBlk(o, i)) THEN "length"
    ELSE IF FileBlk(o, i).nextblock = 0 THEN "none"
    ELSE FirstFail(o, FileBlk(o, i).nextblock, fuel - 1)

\* C37: get(0, ..) raises without reading.  For every block get visits it
\* raises unless the index of the block is < block_count, its length is
\* <= 250, and its nextblock is 0 when its length is 0: a chain that leads to
\* such a block is never returned, the index and the length errors are raised
\* for such blocks only, and each piece of the result is the data of a block
\* that passed the checks.
C37_GetChecksEveryBlock ==
    BlobGetCall =>
        LET f == FirstFail(obj, op.index,
                           IF BlkCount(obj) = 0 THEN 1 ELSE BlkCount(obj))
        IN  /\ op.index = 0 =>
                  op.outcome = "throw_blob_param" /\ op.reads = 0 /\ op.result = <<>>
            /\ op.index # 0 =>
                  /\ f # "none" => op.outcome # "ok"
                  /\ (f = "index" /\ op.size = 0) =>
                        op.outcome \in {"throw_blob_index", "throw_read"}
                  /\ (f = "length" /\ op.size = 0) =>
                        op.outcome \in {"throw_blob_length", "throw_read"}
                  /\ op.outcome = "throw_blob_index" => f = "index"
                  /\ op.outcome = "throw_blob_length" => f = "length"
            /\ \A k \in 1..Len(op.result) :
                  \E i \in 1..(BlkCount(obj) - 1) :
                      /\ BlkSound(FileBlk(obj, i))
                      /\ op.result[k] = <<FileBlkData(obj, i), FileBlk(obj, i).length>>

\* get started at a sound block that links past the object: it has taken the
\* data of that block and raised at the link.
C37_Witness ==
    /\ BlobGetCall /\ op.index = 6 /\ op.outcome = "throw_blob_index"
    /\ op.reads = 1 /\ Len(op.result) = 1
    /\ FileBlk(obj, 6).nextblock >= BlkCount(obj)


\* No key is the key of two entries of 'items'.
NoKeyTwice(items) ==
    \A p, q \in 1..Len(items) : items[p][1] = items[q][1] => p = q

\* C38: as pages::view uses the cache (a push only after a find that
\* missed), no page is held twice: no key is in 'in' and in main at once, none
\* is twice in 'in', twice in main or twice in out.
C38_NoPageHeldTwice ==
    phase = "open" =>
        /\ Keys(cache_queue.in.items) \cap Keys(cache_queue.main.items) = {}
        /\ NoKeyTwice(cache_queue.in.items)
        /\ NoKeyTwice(cache_queue.main.items)
        /\ NoKeyTwice(cache_queue.out.items)

\* The three sub-caches are full, main has just evicted for a page that came
\* back from out, and the key of that page is still in out.
C38_Witness ==
    /\ phase = "open" /\ ViewOk /\ op.read /\ has_value(op.freed)
    /\ Len(cache_queue.in.items) = cache_queue.in.max_size
    /\ Len(cache_queue.out.items) = cache_queue.out.max_size
    /\ Len(cache_queue.main.items) = cache_queue.main.max_size
    /\ op.index \in Keys(cache_queue.main.items) \cap Keys(cache_queue.out.items)
    /\ cache_size = 5


\* The capacities up to which the sizes of the sub-caches are computed.
MaxSized == 64

\* C39: with a cache capacity N >= 4 no assertion of the cache path fires,
\* whatever the views: the capacities N / 4, N / 2 and N - N / 4 of the three
\* sub-caches are >= 1 (for every N from 4 to MaxSized), nothing aborts, the
\* free pool is never empty, so that a miss finds a slot, and when a load has
\* given an evicted slot back the pool held fewer than N slots before.
C39_NoAssertionFires ==
    /\ \A n \in 4..MaxSized : twoq_ctor_asserts(n)
    /\ cache_size >= 4 =>
          /\ phase # "aborted"
          /\ op.name = "view" => op.outcome # "abort"
          /\ phase \in {"closed", "open"} =>
                /\ cache_queue.in.max_size >= 1
                /\ cache_queue.out.max_size >= 1
                /\ cache_queue.main.max_size >= 1
          /\ phase = "open" => Len(cache_pool) >= 1
          /\ (ViewOk /\ op.read /\ has_value(op.freed)) =>
                Len(cache_pool) - 1 < cache_size

\* The cache is full, one slot is left in the pool, and it is the slot the
\* last load got back from an eviction.
C39_Witness ==
    /\ phase = "open" /\ cache_size = 5
    /\ ViewOk /\ op.read /\ has_value(op.freed)
    /\ Len(cache_queue.in.items) = cache_queue.in.max_size
    /\ Len(cache_queue.main.items) = cache_queue.main.max_size
    /\ cache_pool = <<value(op.freed)[2]>>

\* A call of seek with an index that is not below records_count.
SeekRefused == op'.name = "seek" /\ rec.valid /\ op'.index >= rec.records_count

\* C40: records::seek(index_) with index_ >= records_count throws and leaves
\* the cursor as it was: last_index and the buffer 'record' are unchanged, so a
\* record that was current before the call is current after it, and
\* is_deleted() and get_field() answer of it what they answered before.
C40_RefusedSeekKeepsCursor ==
    [][SeekRefused =>
          /\ op'.outcome = "throw_record_index"
          /\ op'.read = <<>>
          /\ rec'.last_index = rec.last_index
          /\ rec'.record = rec.record
          /\ rec'.fields = rec.fields
          /\ seek_success(rec) => seek_success(rec')
          /\ records_is_deleted(rec') = records_is_deleted(rec)
          /\ \A type_ \in FieldTypes, index_ \in FieldIndexes(rec) :
                records_get_field(rec', type_, index_) =
                records_get_field(rec, type_, index_)]_vars

\* A seek past the last record was refused while record 0 was current, and
\* is_deleted() still answers of record 0.
C40_Witness ==
    /\ op.name = "seek" /\ op.outcome = "throw_record_index"
    /\ rec.valid /\ op.index >= rec.records_count
    /\ rec.last_index = Some(0)
    /\ records_is_deleted(rec) = [outcome |-> "ok", ret |-> Some(FALSE)]

=============================================================================
